---- MODULE Spec2Model ----
(***************************************************************************)
(* Model of binsize: the row model and its identity, the handler           *)
(* dispatcher, the common handler contract, the aggregator and the         *)
(* source-definition cache.                                                *)
(*                                                                         *)
(* Strings are TLA+ strings; Len, \o and SubSeq act on them character by   *)
(* character, so Python's str operations are modelled on the characters.   *)
(***************************************************************************)
EXTENDS Integers, Sequences, FiniteSets, TLC

(***************************************************************************)
(* Bounds of the model.                                                    *)
(***************************************************************************)
\* the longest list of rows a caller loads
MaxRows == 3

(***************************************************************************)
(* Python str operations.                                                  *)
(***************************************************************************)
Max(a, b) == IF a >= b THEN a ELSE b

\* s[i-1:j] of a string, for any i and j
Slice(s, i, j) ==
    IF i > j \/ i > Len(s) \/ j < 1 THEN ""
    ELSE SubSeq(s, Max(i, 1), IF j > Len(s) THEN Len(s) ELSE j)

StartsWith(s, p) == Len(p) <= Len(s) /\ Slice(s, 1, Len(p)) = p

EndsWith(s, p) == Len(p) <= Len(s) /\ Slice(s, Len(s) - Len(p) + 1, Len(s)) = p

StartsWithAny(s, prefixes) == \E i \in 1..Len(prefixes) : StartsWith(s, prefixes[i])

\* positions at which `sub` occurs in `s`
Occurrences(s, sub) ==
    {i \in 1..(Len(s) - Len(sub) + 1) : Slice(s, i, i + Len(sub) - 1) = sub}

\* `sub in s`
Contains(s, sub) == Len(sub) = 0 \/ Occurrences(s, sub) # {}

Min(S) == CHOOSE x \in S : \A y \in S : x <= y

\* s.split(sep)[0]
SplitFirst(s, sep) ==
    IF Occurrences(s, sep) = {} THEN s
    ELSE Slice(s, 1, Min(Occurrences(s, sep)) - 1)

\* s.split(sep, maxsplit=1)[1], for a string that contains sep
SplitRest(s, sep) ==
    Slice(s, Min(Occurrences(s, sep)) + Len(sep), Len(s))

\* str.isdigit() of one character
Digits == {"0", "1", "2", "3", "4", "5", "6", "7", "8", "9"}

\* the regular expression \d+$ matched against the whole of s
AllDigits(s) == Len(s) > 0 /\ \A i \in 1..Len(s) : Slice(s, i, i) \in Digits

\* results of calls that may raise
Returns(v) == [raises |-> "", value |-> v]

Raises(e) == [raises |-> e, value |-> <<>>]

(***************************************************************************)
(* Python dict operations.                                                 *)
(***************************************************************************)
EmptyDict == [k \in {} |-> FALSE]

\* d[key] = value on a dict
Store(d, key, value) == [k \in DOMAIN d \cup {key} |-> IF k = key THEN value ELSE d[k]]

\* the values of a dict or a list
Range(f) == {f[x] : x \in DOMAIN f}

(***************************************************************************)
(* DataRow and its identity.                                               *)
(***************************************************************************)
DataRow(symbol_name, section, size, build_definition) ==
    [symbol_name       |-> symbol_name,
     section           |-> section,
     size              |-> size,
     language          |-> "",
     func_name         |-> "",
     module_name       |-> "",
     logic_size        |-> 0,
     data_size         |-> 0,
     build_definition  |-> build_definition,
     number_of_symbols |-> 0,
     source_definition |-> ""]

_name_id(row) ==
    IF row.module_name # "" /\ row.func_name # ""
    THEN row.module_name \o "::" \o row.func_name
    ELSE IF row.module_name # "" THEN row.module_name
    ELSE IF row.func_name # "" THEN row.func_name
    ELSE row.symbol_name

id(row) == row.section \o "_" \o _name_id(row)

(***************************************************************************)
(* aggregate_rows: the groups are the values of a dict keyed by id(), which *)
(* keeps the order in which the keys were first inserted.                  *)
(***************************************************************************)
RECURSIVE deduplication_keys(_)
deduplication_keys(rows) ==
    IF rows = <<>> THEN <<>>
    ELSE LET front == deduplication_keys(SubSeq(rows, 1, Len(rows) - 1))
             key   == id(rows[Len(rows)])
         IN  IF \E i \in 1..Len(front) : front[i] = key
             THEN front
             ELSE Append(front, key)

RECURSIVE SumSeq(_)
SumSeq(ns) == IF ns = <<>> THEN 0 ELSE ns[1] + SumSeq(Tail(ns))

alike_rows(rows, key) ==
    LET idx == {i \in 1..Len(rows) : id(rows[i]) = key}
        RECURSIVE pick(_)
        pick(i) == IF i > Len(rows) THEN <<>>
                   ELSE IF i \in idx THEN <<rows[i]>> \o pick(i + 1)
                   ELSE pick(i + 1)
    IN  pick(1)

\* new_row that copies the last row of the group, not the first
new_row_of_last(alike) ==
    [alike[Len(alike)] EXCEPT
        !.size              = SumSeq([i \in 1..Len(alike) |-> alike[i].size]),
        !.logic_size        = SumSeq([i \in 1..Len(alike) |-> alike[i].logic_size]),
        !.data_size         = SumSeq([i \in 1..Len(alike) |-> alike[i].data_size]),
        !.number_of_symbols = Len(alike)]

new_row(alike) ==
    [alike[1] EXCEPT
        !.size              = SumSeq([i \in 1..Len(alike) |-> alike[i].size]),
        !.logic_size        = SumSeq([i \in 1..Len(alike) |-> alike[i].logic_size]),
        !.data_size         = SumSeq([i \in 1..Len(alike) |-> alike[i].data_size]),
        !.number_of_symbols = Len(alike)]

\* aggregate_rows that keeps the first row of a group and drops the others
aggregate_rows_first_only(rows) ==
    LET keys == deduplication_keys(rows)
    IN  [k \in 1..Len(keys) |->
            LET alike == alike_rows(rows, keys[k])
            IN  [alike[1] EXCEPT !.number_of_symbols = Len(alike)]]

aggregate_rows(rows) ==
    LET keys == deduplication_keys(rows)
    IN  [k \in 1..Len(keys) |-> new_row(alike_rows(rows, keys[k]))]

(***************************************************************************)
(* The source tree below settings.ROOT_DIR: a file is a sequence of lines. *)
(* A path that is no file exists when it is a directory above some file.   *)
(***************************************************************************)
Missing == <<"--no such file--">>

CFileV1 == <<"const uint8_t table[2] = {1, 2};", "void foo(const int x) {", "}">>

CFileV2 == <<"void foo(const int x) {", "}", "const uint8_t table[2] = {1, 2};">>

RustFileV1 == <<"impl Decoder {", "    pub fn decode_field<T>(&mut self) {", "}">>

RustFileV2 == <<"// edited", "impl Decoder {", "    pub fn decode_field<T>(&mut self) {", "}">>

PyFileV1 == <<"def get_features():", "    return 1", "class Cls:", "    def meth(self):", "        pass">>

PyFileV2 == <<"import x", "def get_features():", "    return 1">>

\* a module with a class whose name starts the name of a function, and with
\* functions that define functions
PyFileV3 ==
    <<"class get:", "    def meth(self):", "        pass",
      "def get_features():", "    def inner():", "        pass",
      "def f():", "    def decorator():", "        def wrapper():", "            pass">>

SourceTree ==
    [p \in {"embed/a.c", "embed/rust/src/protobuf/decode.rs", "src/apps/base.py"} |->
        CASE p = "embed/a.c" -> CFileV1
          [] p = "embed/rust/src/protobuf/decode.rs" -> RustFileV1
          [] p = "src/apps/base.py" -> PyFileV1]

is_file(fs, path) == path \in DOMAIN fs /\ fs[path] # Missing

\* Path.exists(): the root itself, a file, or a directory that holds a file
exists(fs, path) ==
    \/ path = ""
    \/ is_file(fs, path)
    \/ \E p \in DOMAIN fs : fs[p] # Missing /\ StartsWith(p, path \o "/")

(***************************************************************************)
(* int(): decimal digits to a number.                                      *)
(***************************************************************************)
DigitValue(c) ==
    CASE c = "0" -> 0 [] c = "1" -> 1 [] c = "2" -> 2 [] c = "3" -> 3
      [] c = "4" -> 4 [] c = "5" -> 5 [] c = "6" -> 6 [] c = "7" -> 7
      [] c = "8" -> 8 [] c = "9" -> 9

RECURSIVE ParseInt(_)
ParseInt(s) ==
    IF Len(s) = 0 THEN 0
    ELSE 10 * ParseInt(Slice(s, 1, Len(s) - 1)) + DigitValue(Slice(s, Len(s), Len(s)))

(***************************************************************************)
(* CRow                                                                    *)
(***************************************************************************)
\* the pair returned by _get_module_and_function
ModFunc(module_name, func_name) == Returns(<<module_name, func_name>>)

\* the function wrapped by file_cache; it raises ValueError when the
\* definition has more than one ':' or its line is no number
is_data_uncached(fs, build_definition) ==
    IF build_definition = "" \/ ~Contains(build_definition, ":") THEN Returns(FALSE)
    ELSE IF Cardinality(Occurrences(build_definition, ":")) > 1 THEN Raises("ValueError")
    ELSE LET def_file == SplitFirst(build_definition, ":")
             line_num == SplitRest(build_definition, ":")
         IN  IF ~exists(fs, def_file) THEN Returns(FALSE)
             ELSE IF ~is_file(fs, def_file) THEN Raises("IsADirectoryError")
             ELSE IF Len(fs[def_file]) = 0 THEN Returns(FALSE)
             ELSE IF ~AllDigits(line_num) THEN Raises("ValueError")
             ELSE IF ParseInt(line_num) \in 1..Len(fs[def_file])
                  THEN Returns(Contains(SplitFirst(fs[def_file][ParseInt(line_num)], "("),
                                        "const "))
                  ELSE Returns(FALSE)

\* The function is one of the source tree and the build definition: its
\* values for the trees and build definitions of the model are computed once.
SourceTrees == {SourceTree}

BuildDefinitions == {"", "embed/a.c:1", "embed/a.c:2", "build/firmware/frozen_mpy.c:7"}

is_data_results ==
    [fs \in SourceTrees |-> [build_definition \in BuildDefinitions |->
        is_data_uncached(fs, build_definition)]]

is_data_function(fs, build_definition) ==
    IF fs \in SourceTrees /\ build_definition \in BuildDefinitions
    THEN is_data_results[fs][build_definition]
    ELSE is_data_uncached(fs, build_definition)

\* file_cache.new_func: the result and the cache after the call
is_data_cached(cache, fs, build_definition) ==
    IF build_definition \in DOMAIN cache
    THEN [result |-> Returns(cache[build_definition]), cache |-> cache]
    ELSE LET stored(r) ==
                 IF r.raises = ""
                 THEN [result |-> r, cache |-> (build_definition :> r.value) @@ cache]
                 ELSE [result |-> r, cache |-> cache]
         IN  stored(is_data_function(fs, build_definition))

clean_special_symbols(symbol_name) ==
    IF StartsWith(symbol_name, "[section") THEN symbol_name
    ELSE IF StartsWith(symbol_name, "OUTLINED_FUNCTION_")
            /\ AllDigits(Slice(symbol_name, 19, Len(symbol_name)))
         THEN "OUTLINED_FUNCTION"
    \* the pattern starts with an unescaped '.', which matches any character
    ELSE IF Len(symbol_name) >= 1
            /\ StartsWith(Tail(symbol_name), "rodata::L__unnamed_")
            /\ AllDigits(Slice(symbol_name, 21, Len(symbol_name)))
         THEN ".rodata::L__unnamed"
    ELSE IF Contains(symbol_name, ".") THEN SplitFirst(symbol_name, ".")
    ELSE symbol_name

CRow_get_module_and_function(symbol_name) == ModFunc("", clean_special_symbols(symbol_name))

(***************************************************************************)
(* More str operations, used by the Rust and MicroPython handlers.         *)
(***************************************************************************)
\* s[-n:]
LastChars(s, n) == Slice(s, Max(1, Len(s) - n + 1), Len(s))

\* s[:-n], n > 0
DropLast(s, n) == Slice(s, 1, Max(0, Len(s) - n))

\* s[n:]
DropFirst(s, n) == Slice(s, n + 1, Len(s))

CharAt(s, i) == Slice(s, i, i)

\* s.split(sep)
RECURSIVE Split(_, _)
Split(s, sep) ==
    IF Occurrences(s, sep) = {} THEN <<s>>
    ELSE <<SplitFirst(s, sep)>> \o Split(SplitRest(s, sep), sep)

\* sep.join(parts)
RECURSIVE Join(_, _)
Join(parts, sep) ==
    IF Len(parts) = 0 THEN ""
    ELSE IF Len(parts) = 1 THEN parts[1]
    ELSE parts[1] \o sep \o Join(Tail(parts), sep)

\* s.replace(old, new), old not empty
RECURSIVE Replace(_, _, _)
Replace(s, old, new) ==
    IF Occurrences(s, old) = {} THEN s
    ELSE SplitFirst(s, old) \o new \o Replace(SplitRest(s, old), old, new)

UpperLetters ==
    {"A", "B", "C", "D", "E", "F", "G", "H", "I", "J", "K", "L", "M",
     "N", "O", "P", "Q", "R", "S", "T", "U", "V", "W", "X", "Y", "Z"}

LowerLetters ==
    {"a", "b", "c", "d", "e", "f", "g", "h", "i", "j", "k", "l", "m",
     "n", "o", "p", "q", "r", "s", "t", "u", "v", "w", "x", "y", "z"}

\* the regular expression class \w
WordChars == UpperLetters \cup LowerLetters \cup Digits \cup {"_"}

HexChars == Digits \cup {"a", "b", "c", "d", "e", "f", "A", "B", "C", "D", "E", "F"}

HexValue(c) ==
    CASE c \in Digits -> DigitValue(c)
      [] c \in {"a", "A"} -> 10 [] c \in {"b", "B"} -> 11 [] c \in {"c", "C"} -> 12
      [] c \in {"d", "D"} -> 13 [] c \in {"e", "E"} -> 14 [] c \in {"f", "F"} -> 15

\* whether int(s, 16) succeeds: an optional sign, an optional 0x, then hex
\* digits that single underscores may separate
IsHexInt(s) ==
    LET unsigned == IF Len(s) > 0 /\ CharAt(s, 1) \in {"+", "-"} THEN Tail(s) ELSE s
        prefixed == Len(unsigned) >= 2 /\ Slice(unsigned, 1, 2) \in {"0x", "0X"}
        body     == IF prefixed THEN DropFirst(unsigned, 2) ELSE unsigned
        separated(digits) ==
            /\ Len(digits) > 0
            /\ \A i \in 1..Len(digits) : CharAt(digits, i) \in HexChars \cup {"_"}
            /\ CharAt(digits, 1) # "_"
            /\ CharAt(digits, Len(digits)) # "_"
            /\ ~Contains(digits, "__")
    IN  separated(IF prefixed /\ Len(body) > 0 /\ CharAt(body, 1) = "_"
                  THEN Tail(body) ELSE body)

\* the characters of code points 32..95 and 97..126
AsciiLow == " !\"#$%&'()*+,-./0123456789:;<=>?@ABCDEFGHIJKLMNOPQRSTUVWXYZ[\\]^_"

AsciiHigh == "abcdefghijklmnopqrstuvwxyz{|}~"

\* chr(): the printable characters; any other code point stays a token of its own
chr(n) ==
    IF n \in 32..95 THEN CharAt(AsciiLow, n - 31)
    ELSE IF n \in 97..126 THEN CharAt(AsciiHigh, n - 96)
    ELSE "<chr>"

(***************************************************************************)
(* RustRow                                                                 *)
(***************************************************************************)
get_rid_of_hex_suffix(name) ==
    IF IsHexInt(LastChars(name, 16))
    THEN LET without_hex == DropLast(name, 16)
         IN  IF EndsWith(without_hex, "::h") THEN DropLast(without_hex, 3)
             ELSE without_hex
    ELSE name

\* re.sub(r"\$u(\w\w)\$", _replace_unicode, s)
RECURSIVE replace_unicode(_)
replace_unicode(s) ==
    LET starts == {i \in 1..(Len(s) - 4) :
                      /\ Slice(s, i, i + 1) = "$u"
                      /\ CharAt(s, i + 2) \in WordChars
                      /\ CharAt(s, i + 3) \in WordChars
                      /\ CharAt(s, i + 4) = "$"}
    IN  IF starts = {} THEN s
        ELSE LET _replace_unicode(match, num) ==
                     IF IsHexInt(num)
                     THEN chr(16 * HexValue(CharAt(num, 1)) + HexValue(CharAt(num, 2)))
                     ELSE match
                 sub(i) == Slice(s, 1, i - 1)
                           \o _replace_unicode(Slice(s, i, i + 4), Slice(s, i + 2, i + 3))
                           \o replace_unicode(DropFirst(s, i + 4))
             IN  sub(Min(starts))

replace_dollar_encodings(symbol_name) ==
    replace_unicode(
        Replace(Replace(Replace(Replace(Replace(symbol_name,
            "$LT$", "<"), "$GT$", ">"), "$RF$", "&"), "$C$", ","), "..", "::"))

\* part.split()[-1]: the last word of part, "" standing for the IndexError
\* that an empty or blank part raises
LastWord(part) ==
    LET ends == {i \in 1..Len(part) : CharAt(part, i) # " "}
    IN  IF ends = {} THEN ""
        ELSE LET e == CHOOSE i \in ends : \A j \in ends : j <= i
                 blanks == {i \in 1..e : CharAt(part, i) = " "}
                 b == IF blanks = {} THEN 0
                      ELSE CHOOSE i \in blanks : \A j \in blanks : j <= i
             IN  Slice(part, b + 1, e)

\* an alias decoder that always takes the left symbol
get_real_symbol_from_alias_left(symbol_name) ==
    LET last(parts) == parts[Len(parts)]
        choose(possibilities) ==
            possibilities[1]
        last_words(as_parts) == [i \in 1..Len(as_parts) |-> LastWord(as_parts[i])]
        real(func_name, possibilities) ==
            IF \E i \in 1..Len(possibilities) : possibilities[i] = ""
            THEN Raises("IndexError")
            ELSE Returns(choose(possibilities) \o "::" \o func_name)
        aliased(func_name) ==
            real(func_name,
                 last_words(Split(DropLast(DropFirst(symbol_name, 2), Len(func_name) + 3),
                                  " as ")))
    IN  aliased(last(Split(symbol_name, ">::")))

get_real_symbol_from_alias(symbol_name) ==
    LET last(parts) == parts[Len(parts)]
        choose(possibilities) ==
            IF Len(possibilities) = 1 \/ Contains(possibilities[1], "::")
            THEN possibilities[1]
            ELSE possibilities[2]
        last_words(as_parts) == [i \in 1..Len(as_parts) |-> LastWord(as_parts[i])]
        real(func_name, possibilities) ==
            IF \E i \in 1..Len(possibilities) : possibilities[i] = ""
            THEN Raises("IndexError")
            ELSE Returns(choose(possibilities) \o "::" \o func_name)
        aliased(func_name) ==
            real(func_name,
                 last_words(Split(DropLast(DropFirst(symbol_name, 2), Len(func_name) + 3),
                                  " as ")))
    IN  aliased(last(Split(symbol_name, ">::")))

\* the loop of filter_nonrelevant_items, should_keep being its flag
RECURSIVE filter_items(_, _)
filter_items(items, should_keep) ==
    IF Len(items) = 0 THEN <<>>
    ELSE LET item == items[1]
             rest == Tail(items)
         IN  IF item = "_{{closure}}" THEN filter_items(rest, should_keep)
             ELSE IF \A i \in 1..Len(item) : CharAt(item, i) \in UpperLetters
                  THEN filter_items(rest, should_keep)
             ELSE LET keep == should_keep /\ ~StartsWith(item, "_<")
                  IN  IF ~keep /\ EndsWith(item, ">") THEN filter_items(rest, TRUE)
                      ELSE IF keep THEN <<item>> \o filter_items(rest, keep)
                      ELSE filter_items(rest, keep)

filter_nonrelevant_items(items) == filter_items(items, TRUE)

INVALID_FILE_PREFIX == "--invalid_file--"

resolve_trezorlib_symbol(fs, symbol_name) ==
    LET file_path(base) ==
            IF exists(fs, base \o ".rs") THEN base \o ".rs"
            ELSE IF exists(fs, base \o "/mod.rs") THEN base \o "/mod.rs"
            ELSE INVALID_FILE_PREFIX \o base \o ".rs"
        file_of(dirs) ==
            file_path(IF Len(dirs) = 0 THEN "embed/rust/src"
                      ELSE "embed/rust/src/" \o Join(dirs, "/"))
        located(function_name, before, has_struct) ==
            ModFunc(file_of(IF has_struct THEN SubSeq(before, 1, Len(before) - 1)
                            ELSE before),
                    IF has_struct
                    THEN before[Len(before)] \o "::" \o function_name \o "()"
                    ELSE function_name \o "()")
        resolved(function_name, before) ==
            IF Len(before) = 0 THEN Raises("IndexError")
            ELSE located(function_name, before,
                         CharAt(before[Len(before)], 1) \in UpperLetters \cup {"_"})
        relevant(items) ==
            IF Len(items) < 2 THEN ModFunc("", "")
            ELSE resolved(items[Len(items)], SubSeq(items, 2, Len(items) - 1))
    IN  relevant(filter_nonrelevant_items(Split(symbol_name, "::")))

RustRow_get_module_and_function(fs, symbol_name) ==
    LET resolved(real) ==
            IF real.raises # "" THEN real
            ELSE IF StartsWith(real.value, "trezor_lib::")
                 THEN resolve_trezorlib_symbol(fs, real.value)
                 ELSE ModFunc("", real.value \o "()")
        named(decoded) ==
            IF ~Contains(decoded, "::") THEN ModFunc("", decoded)
            ELSE resolved(IF StartsWith(decoded, "_")
                          THEN get_real_symbol_from_alias(decoded)
                          ELSE Returns(decoded))
    IN  named(replace_dollar_encodings(get_rid_of_hex_suffix(symbol_name)))

(***************************************************************************)
(* MicropythonRow                                                          *)
(***************************************************************************)
ObjectDefinition(name, functions, classes, start_line, end_line) ==
    [name |-> name, functions |-> functions, classes |-> classes,
     start_line |-> start_line, end_line |-> end_line]

\* ast.parse and _resolve_object: the index of a file, by its content.  An
\* empty module has no body, and body[-1] raises IndexError.
parsed_objects(content, file_name) ==
    CASE content = PyFileV1 ->
           Returns(ObjectDefinition(file_name,
               <<ObjectDefinition("get_features", <<>>, <<>>, 1, 2)>>,
               <<ObjectDefinition("Cls",
                   <<ObjectDefinition("meth", <<>>, <<>>, 4, 5)>>, <<>>, 3, 5)>>,
               0, 5))
      [] content = PyFileV2 ->
           Returns(ObjectDefinition(file_name,
               <<ObjectDefinition("get_features", <<>>, <<>>, 2, 3)>>, <<>>, 0, 3))
      [] content = PyFileV3 ->
           Returns(ObjectDefinition(file_name,
               <<ObjectDefinition("get_features",
                   <<ObjectDefinition("inner", <<>>, <<>>, 5, 6)>>, <<>>, 4, 6),
                 ObjectDefinition("f",
                   <<ObjectDefinition("decorator",
                       <<ObjectDefinition("wrapper", <<>>, <<>>, 9, 10)>>, <<>>, 8, 10)>>,
                   <<>>, 7, 10)>>,
               <<ObjectDefinition("get",
                   <<ObjectDefinition("meth", <<>>, <<>>, 2, 3)>>, <<>>, 1, 3)>>,
               0, 10))
      [] content = <<>> -> Raises("IndexError")
      [] OTHER -> Raises("SyntaxError")

_default_object(module_path) == ObjectDefinition(module_path, <<>>, <<>>, 0, 999)

get_module_object_definitions(fs, module_path) ==
    IF ~is_file(fs, module_path) THEN Returns(_default_object(module_path))
    ELSE parsed_objects(fs[module_path], module_path)

class_names(obj) == {obj.classes[i].name : i \in 1..Len(obj.classes)}

func_names(obj) == {obj.functions[i].name : i \in 1..Len(obj.functions)}

get_class(obj, cls_name) ==
    obj.classes[Min({i \in 1..Len(obj.classes) : obj.classes[i].name = cls_name})]

get_func(obj, func_name) ==
    obj.functions[Min({i \in 1..Len(obj.functions) : obj.functions[i].name = func_name})]

MaxOf(S) == CHOOSE x \in S : \A y \in S : y <= x

RECURSIVE resolve_symbol(_, _)
resolve_symbol(obj, symbol_name) ==
    IF symbol_name \in func_names(obj) THEN symbol_name \o "()"
    ELSE LET symbol_split == Split(symbol_name, "_")
             n            == Len(symbol_split)
             try(i)       == Join(SubSeq(symbol_split, 1, i), "_")
             class_hits   == {i \in 1..n : try(i) \in class_names(obj)}
             func_hits    == {i \in 1..n : try(i) \in func_names(obj)}
         IN  IF class_hits # {}
             THEN LET in_class(class_try, resolved) ==
                          IF resolved # "" THEN class_try \o "." \o resolved
                          ELSE class_try
                      rest(i) == Join(SubSeq(symbol_split, i + 1, n), "_")
                      at(i)   == in_class(try(i),
                                          resolve_symbol(get_class(obj, try(i)), rest(i)))
                  IN  at(MaxOf(class_hits))
             ELSE IF func_hits # {} THEN try(MaxOf(func_hits)) \o "()"
             ELSE ""

\* re.sub(r"(_)?_lt_\w+_gt(_\d*)?", "", symbol_name): the leftmost match;
\* \w+ is greedy and gives back characters up to the last "_gt" of its run
RECURSIVE remove_strange_suffixes(_)
remove_strange_suffixes(s) ==
    LET n          == Len(s)
        run_end(j) == IF \E k \in j..n : CharAt(s, k) \notin WordChars
                      THEN Min({k \in j..n : CharAt(s, k) \notin WordChars}) - 1
                      ELSE n
        \* the "_gt" that may close a match whose "_lt_" starts at j
        gts(j)     == {g \in (j + 5)..(run_end(j + 4) - 2) : Slice(s, g, g + 2) = "_gt"}
        lts        == {j \in 1..n : Slice(s, j, j + 3) = "_lt_" /\ gts(j) # {}}
    IN  IF lts = {} THEN s
        ELSE LET start(j)      == IF j > 1 /\ CharAt(s, j - 1) = "_" THEN j - 1 ELSE j
                 digits(after) == {k \in (after + 1)..n :
                                      \A m \in (after + 1)..k : CharAt(s, m) \in Digits}
                 last(ds, after) == IF ds = {} THEN after ELSE MaxOf(ds)
                 stop(after)   == IF after <= n /\ CharAt(s, after) = "_"
                                  THEN last(digits(after), after)
                                  ELSE after - 1
                 cut(j)        == Slice(s, 1, start(j) - 1)
                                  \o remove_strange_suffixes(
                                         DropFirst(s, stop(MaxOf(gts(j)) + 3)))
             IN  cut(Min(lts))

resolve_function_name(fs, func_name, module_name) ==
    LET resolved(cleaned, module_defs) ==
            IF module_defs.raises # "" THEN module_defs
            ELSE Returns(resolve_symbol(module_defs.value, cleaned))
        named(cleaned) ==
            IF cleaned = "" THEN Returns("")
            ELSE resolved(cleaned, get_module_object_definitions(fs, module_name))
    IN  named(remove_strange_suffixes(func_name))

\* str.rstrip("_")
RECURSIVE rstrip_underscores(_)
rstrip_underscores(s) ==
    IF EndsWith(s, "_") THEN rstrip_underscores(DropLast(s, 1)) ELSE s

\* the loop of resolve_module that fills file_path part by part
RECURSIVE fill_file_path(_, _, _)
fill_file_path(fs, file_path, module_parts) ==
    IF Len(module_parts) = 0 THEN file_path
    ELSE LET part          == module_parts[1]
             possible_path == IF EndsWith(file_path, "_") THEN file_path \o part
                              ELSE file_path \o "/" \o part
         IN  IF part = "" THEN fill_file_path(fs, file_path, Tail(module_parts))
             ELSE IF exists(fs, possible_path)
                  THEN fill_file_path(fs, possible_path, Tail(module_parts))
                  ELSE fill_file_path(fs, possible_path \o "_", Tail(module_parts))

\* <<file_path, is_valid>>
resolve_module(fs, module_name) ==
    LET module_parts(module_name_py) ==
            IF EndsWith(module_name_py, "__init__.py")
            THEN Split(DropLast(module_name_py, 11), "_") \o <<"__init__.py">>
            ELSE Split(module_name_py, "_")
        \* the special case of the monero serialize messages
        monero(file_path) ==
            IF /\ ~exists(fs, file_path)
               /\ Contains(file_path, "apps/monero/")
               /\ Contains(file_path, "serialize/messages")
            THEN Replace(file_path, "serialize/messages_", "serialize_messages/")
            ELSE file_path
        checked(file_path) == <<file_path, exists(fs, file_path)>>
    IN  checked(monero(rstrip_underscores(
            fill_file_path(fs, "src", module_parts(module_name \o ".py")))))

MPY_PREFIXES == <<"fun_data_", "const_table_data_", "const_obj_", "raw_code_">>

RECURSIVE strip_prefixes(_, _)
strip_prefixes(symbol_name, prefixes) ==
    IF Len(prefixes) = 0 THEN symbol_name
    ELSE IF StartsWith(symbol_name, prefixes[1])
         THEN strip_prefixes(DropFirst(symbol_name, Len(prefixes[1])), Tail(prefixes))
         ELSE strip_prefixes(symbol_name, Tail(prefixes))

mpy_exceptions ==
    {"blake_hash_writer_32", "_migrate_from_version_01", "sha256d_32", "groestl512d_32",
     "blake256d_32", "keccak_32", "ripemd160_32"}

\* re.sub(r"_\d+$", "", symbol_name)
strip_number_suffix(s) ==
    LET cuts == {i \in 1..Len(s) : CharAt(s, i) = "_" /\ AllDigits(DropFirst(s, i))}
    IN  IF cuts = {} THEN s ELSE Slice(s, 1, Min(cuts) - 1)

\* the loop of _get_module_and_function over the split points, from the back
RECURSIVE split_module_and_function(_, _, _)
split_module_and_function(fs, split_symbol, i) ==
    IF i = 0
    THEN Returns(<<Join(SubSeq(split_symbol, 1, Len(split_symbol) - 1), "_"),
                   split_symbol[Len(split_symbol)], FALSE>>)
    ELSE LET module_part == Join(SubSeq(split_symbol, 1, i), "_")
             func_part   == Join(SubSeq(split_symbol, i + 1, Len(split_symbol)), "_")
             tried(module, func_name) ==
                 IF func_name.raises # "" THEN func_name
                 ELSE IF module[2] THEN Returns(<<module[1], func_name.value, TRUE>>)
                 ELSE split_module_and_function(fs, split_symbol, i - 1)
             try(module) == tried(module, resolve_function_name(fs, func_part, module[1]))
         IN  try(resolve_module(fs, module_part))

MicropythonRow_get_module_and_function(fs, name) ==
    LET module_end == "__lt_module_gt_"
        result(found) ==
            IF found.raises # "" THEN found
            ELSE IF found.value[3] THEN ModFunc(found.value[1], found.value[2])
            ELSE ModFunc(INVALID_FILE_PREFIX \o found.value[1], found.value[2])
        module_only(module) == Returns(<<module[1], "", module[2]>>)
        split(split_symbol) ==
            split_module_and_function(fs, split_symbol, Len(split_symbol))
        resolved(symbol_name) ==
            result(IF EndsWith(symbol_name, module_end)
                   THEN module_only(resolve_module(fs, DropLast(symbol_name, Len(module_end))))
                   ELSE split(Split(symbol_name, "_")))
        cleaned(stripped) ==
            resolved(IF \E ex \in mpy_exceptions : EndsWith(stripped, ex) THEN stripped
                     ELSE strip_number_suffix(stripped))
    IN  cleaned(strip_prefixes(name, MPY_PREFIXES))

(***************************************************************************)
(* The linker map file: get_section_data reads the lines of one section,   *)
(* get_symbol_sizes takes the section prefixes off the names.              *)
(***************************************************************************)
\* line.split() on a line of words and spaces
words(line) == SelectSeq(Split(line, " "), LAMBDA word : word # "")

\* int(s, 16) of a string that IsHexInt accepts, without a sign
RECURSIVE HexDigitsValue(_)
HexDigitsValue(digits) ==
    IF Len(digits) = 0 THEN 0
    ELSE IF CharAt(digits, Len(digits)) = "_" THEN HexDigitsValue(DropLast(digits, 1))
    ELSE 16 * HexDigitsValue(DropLast(digits, 1)) + HexValue(CharAt(digits, Len(digits)))

ParseHex(s) ==
    IF Len(s) >= 2 /\ Slice(s, 1, 2) \in {"0x", "0X"} THEN HexDigitsValue(DropFirst(s, 2))
    ELSE HexDigitsValue(s)

REPLACEMENTS ==
    <<<<"$LT$", "<">>, <<"$GT$", ">">>, <<"$u20$", " ">>, <<"$RF$", "&">>, <<"..", "::">>>>

RECURSIVE replace_all(_, _)
replace_all(symbol, replacements) ==
    IF Len(replacements) = 0 THEN symbol
    ELSE replace_all(Replace(symbol, replacements[1][1], replacements[1][2]),
                     Tail(replacements))

_rust_demangle(symbol) == replace_all(symbol, REPLACEMENTS)

\* dict.setdefault(name, SectionItem(name)) on the items in insertion order,
\* an item being its name and the total size of its entries
setdefault(section_data, name) ==
    IF \E i \in 1..Len(section_data) : section_data[i].name = name THEN section_data
    ELSE Append(section_data, [name |-> name, total_size |-> 0])

\* current_section.entries.append(Entry(size=size))
append_entry(section_data, name, size) ==
    [i \in 1..Len(section_data) |->
        IF section_data[i].name = name
        THEN [section_data[i] EXCEPT !.total_size = @ + size]
        ELSE section_data[i]]

\* the loop over the lines that follow the header of the section;
\* current_section is "" for None
RECURSIVE read_entries(_, _, _)
read_entries(lines, section_data, current_section) ==
    IF Len(lines) = 0 \/ StartsWith(lines[1], ".") THEN Returns(section_data)
    ELSE LET entry(data, current, elems) ==
                 IF Len(elems) = 0 THEN read_entries(Tail(lines), data, current)
                 ELSE IF current = "" THEN Raises("AssertionError")
                 ELSE IF ~IsHexInt(elems[1]) THEN Raises("ValueError")
                 ELSE IF Len(elems) > 1 /\ StartsWith(elems[2], "0x")
                 THEN IF ~IsHexInt(elems[2]) THEN Raises("ValueError")
                      ELSE read_entries(Tail(lines),
                                        append_entry(data, current, ParseHex(elems[2])),
                                        current)
                 ELSE read_entries(Tail(lines), data, current)
             named(name, elems) == entry(setdefault(section_data, name), name, Tail(elems))
             line(elems) ==
                 IF Len(elems) > 0 /\ ~StartsWith(elems[1], "0x")
                 THEN named(_rust_demangle(elems[1]), elems)
                 ELSE entry(section_data, current_section, elems)
         IN  line(words(lines[1]))

\* get_section_data: lines.pop(0) until the header of the section
RECURSIVE get_section_data(_, _)
get_section_data(lines, section_to_get) ==
    IF Len(lines) = 0 THEN Raises("IndexError: pop from empty list")
    ELSE IF StartsWith(lines[1], section_to_get \o " ")
    THEN read_entries(Tail(lines), <<>>, "")
    ELSE get_section_data(Tail(lines), section_to_get)

\* symbol_name.lstrip(".")
RECURSIVE lstrip_dots(_)
lstrip_dots(s) == IF StartsWith(s, ".") THEN lstrip_dots(Tail(s)) ELSE s

\* the name without its section: lstrip(".").split(".", maxsplit=1)[-1]
no_section_name(symbol_name) ==
    LET last(stripped) == IF Contains(stripped, ".") THEN SplitRest(stripped, ".")
                          ELSE stripped
    IN  last(lstrip_dots(symbol_name))

\* the loop of get_symbol_sizes: a later item of the same name replaces
\* the earlier one
RECURSIVE symbol_sizes_of(_, _)
symbol_sizes_of(section_data, symbol_sizes) ==
    IF Len(section_data) = 0 THEN symbol_sizes
    ELSE LET item == section_data[1]
         IN  symbol_sizes_of(Tail(section_data),
                 Store(symbol_sizes,
                       IF Cardinality(Occurrences(item.name, ".")) < 2 THEN item.name
                       ELSE no_section_name(item.name),
                       item.total_size))

get_symbol_sizes(map_file, section) ==
    LET sized(section_data) ==
            IF section_data.raises # "" THEN section_data
            ELSE Returns(symbol_sizes_of(section_data.value, EmptyDict))
    IN  sized(get_section_data(map_file, section))

(***************************************************************************)
(* MapFileIncluder                                                         *)
(***************************************************************************)
\* map_s[-10:-1]
end_hash(map_s) == Slice(map_s, Max(1, Len(map_s) - 9), Len(map_s) - 1)

\* a Rust check that looks only at the rows of the section
_is_duplicate_rust_symbol_in_section(row_data, section, map_s) ==
    /\ StartsWith(map_s, "_ZN")
    /\ EndsWith(map_s, "E")
    /\ \E i \in 1..Len(row_data) :
           row_data[i].section = section /\ EndsWith(row_data[i].symbol_name, end_hash(map_s))

_is_duplicate_rust_symbol(row_data, section, map_s) ==
    /\ StartsWith(map_s, "_ZN")
    /\ EndsWith(map_s, "E")
    /\ \E i \in 1..Len(row_data) : EndsWith(row_data[i].symbol_name, end_hash(map_s))

get_symbols_we_miss(row_data, map_symbol_sizes, section) ==
    LET our_symbols == {row_data[i].symbol_name :
                            i \in {j \in 1..Len(row_data) : row_data[j].section = section}}
    IN  {map_s \in DOMAIN map_symbol_sizes :
            map_s \notin our_symbols /\ ~_is_duplicate_rust_symbol(row_data, section, map_s)}

\* add_map_file_info, the set being iterated in the given order: the rows
\* appended and the size added
RECURSIVE add_map_file_info(_, _, _)
add_map_file_info(map_symbol_sizes, map_symbols_we_miss, section) ==
    IF Len(map_symbols_we_miss) = 0 THEN [rows |-> <<>>, added_size |-> 0]
    ELSE LET rest == add_map_file_info(map_symbol_sizes, Tail(map_symbols_we_miss), section)
             missing_symbol == map_symbols_we_miss[1]
         IN  [rows |-> <<DataRow(missing_symbol, section,
                                 map_symbol_sizes[missing_symbol], "")>> \o rest.rows,
              added_size |-> map_symbol_sizes[missing_symbol] + rest.added_size]

\* a search that takes the first row of the section
mysterious_section_row_of_section(row_data, section) ==
    LET named == {i \in 1..Len(row_data) : row_data[i].section = section}
    IN  IF named = {} THEN 0 ELSE Min(named)

\* the position of the row decrease_size_of_mysterious_section changes,
\* 0 when it only prints the warning
mysterious_section_row(row_data, section) ==
    LET named == {i \in 1..Len(row_data) :
                     row_data[i].symbol_name = "[section " \o section \o "]"}
    IN  IF named = {} THEN 0 ELSE Min(named)

decrease_size_of_mysterious_section(row_data, section, added_size) ==
    [i \in 1..Len(row_data) |->
        IF i = mysterious_section_row(row_data, section)
        THEN [row_data[i] EXCEPT !.size = @ - added_size]
        ELSE row_data[i]]

(***************************************************************************)
(* What the profiler and the build-definition loader report: the symbols   *)
(* of the binary, each with its section, size and build definition.        *)
(***************************************************************************)
BinarySymbols ==
    {DataRow("foo", ".init_array", 1, "embed/a.c:2"),
     DataRow("foo.str1.1", ".init_array", 2, ""),
     DataRow("array_foo", ".init", 4, "embed/a.c:1"),
     DataRow("core::fmt::write::h0123456789abcdef", ".init", 8, ""),
     DataRow("fun_data_apps_base_get_features_1", ".init", 16,
             "build/firmware/frozen_mpy.c:7")}

\* the map files of the binaries
MapFileV1 ==
    <<"Memory map",
      ".flash 0x8040000 0x10",
      " .text.aaa 0x8040000 0x1 a.o",
      " .rodata.bbb.str1.1",
      "  0x8040004 0x2 b.o",
      " .text.zzz 0x8040008 0x3 c.o",
      " .text._ZN4core6option15Option$LT$T$GT$11map_or_else17hee63c66131f899deE",
      "  0x804000c 0x4 d.o",
      ".flash2 0x8050000 0x10",
      " .text.eee 0x8050000 0x2 e.o">>

MapFileV2 ==
    <<".flash 0x8040000 0x20",
      " *(.text*)",
      " .text.zzz 0x8040000 0x9 c.o",
      " .text.aaa 0x8040010 0x1 a.o",
      " .text.aaa 0x8040014 0x1 a.o">>

MapFiles == {MapFileV1, MapFileV2}

Sections == {".flash", ".flash2"}

\* what the profiler reports for the binary the map files describe
MapRows ==
    {DataRow("[section .flash]", ".flash", 5, ""),
     DataRow("[section .flash2]", ".flash2", 6, ""),
     DataRow("aaa", ".flash", 2, ""),
     DataRow("bbb", ".flash", 2, ""),
     DataRow("zzz", ".flash2", 1, ""),
     DataRow("core::option::Option$LT$T$GT$::map_or_else::hee63c66131f899de", ".flash2", 4, "")}

\* get_symbol_sizes is a function of the map file and the section: its
\* values for the map files and sections of the model are computed once
symbol_sizes ==
    [map_file \in MapFiles |-> [section \in Sections |->
        get_symbol_sizes(map_file, section)]]

symbol_sizes_in(map_file, section) ==
    IF map_file \in MapFiles /\ section \in Sections THEN symbol_sizes[map_file][section]
    ELSE get_symbol_sizes(map_file, section)

\* the binaries that exist, each with the rows the profiler and nm report
Binaries ==
    [bin_file \in {"firmware.elf"} |->
        <<DataRow("[section .flash]", ".flash", 5, ""),
          DataRow("aaa", ".flash", 2, ""),
          DataRow("bbb", ".flash", 2, ""),
          DataRow("core::option::Option$LT$T$GT$::map_or_else::hee63c66131f899de",
                  ".flash", 4, "")>>]

BinFiles == {"firmware.elf", "unexisting.elf"}

\* the lists of rows a caller loads
PipelineRows ==
    {<<DataRow("foo", ".flash", 1, "embed/a.c:2"),
       DataRow("array_foo", ".flash", 4, ""),
       DataRow("trezor_lib::protobuf::decode::Decoder::decode_field::h0123456789abcdef",
               ".flash", 8, ""),
       DataRow("fun_data_apps_base_get_features_1", ".flash2", 16,
               "build/firmware/frozen_mpy.c:7")>>,
     <<DataRow("aaa", ".flash", 2, ""),
       DataRow("core::option::Option$LT$T$GT$::map_or_else::hee63c66131f899de",
               ".flash2", 4, ""),
       DataRow("[section .flash]", ".flash", 9, "")>>,
     <<DataRow("foo", ".flash", 1, "embed/a.c:2"),
       DataRow("trezor_lib::ui::h0123456789abcdef", ".flash", 2, ""),
       DataRow("array_foo", ".flash", 4, "")>>}

(***************************************************************************)
(* RowHandlerFactory and the common handler contract.                      *)
(***************************************************************************)
RUST_PREFIXES ==
    <<"trezor_lib", "compiler_builtins", "core::", "_$LT$", "heapless::", "cstr_core::",
      "_ZN", "unlikely._ZN">>

\* a factory that looks at the MicroPython prefixes first
RowHandlerFactory_mpy_first(row) ==
    IF StartsWithAny(row.symbol_name, MPY_PREFIXES) THEN "MicropythonRow"
    ELSE IF StartsWithAny(row.symbol_name, RUST_PREFIXES)
            \/ StartsWith(row.build_definition, "/cargo/")
    THEN "RustRow"
    ELSE "CRow"

RowHandlerFactory(row) ==
    IF StartsWithAny(row.symbol_name, RUST_PREFIXES) \/ StartsWith(row.build_definition, "/cargo/")
    THEN "RustRow"
    ELSE IF StartsWithAny(row.symbol_name, MPY_PREFIXES) THEN "MicropythonRow"
    ELSE "CRow"

language(handler) ==
    CASE handler = "RustRow" -> "Rust"
      [] handler = "MicropythonRow" -> "mpy"
      [] handler = "CRow" -> "C"

_get_module_and_function(handler, fs, symbol_name) ==
    CASE handler = "RustRow" -> RustRow_get_module_and_function(fs, symbol_name)
      [] handler = "MicropythonRow" -> MicropythonRow_get_module_and_function(fs, symbol_name)
      [] handler = "CRow" -> CRow_get_module_and_function(symbol_name)

\* The decoders are functions of the source tree and the symbol: their
\* values for the trees and symbols of the model are computed once.
Handlers == {"RustRow", "MicropythonRow", "CRow"}

\* the rows of the model
ModelRows ==
    BinarySymbols \cup MapRows
        \cup UNION {Range(Binaries[bin_file]) : bin_file \in DOMAIN Binaries}
        \cup UNION {Range(rows) : rows \in PipelineRows}

\* the names of the rows and of the symbols of the map files
SymbolNames ==
    {row.symbol_name : row \in ModelRows}
        \cup UNION {DOMAIN get_symbol_sizes(map_file, section).value :
                       map_file \in MapFiles, section \in Sections}

\* each symbol of the model with the handler the factory gives it
SymbolHandlers ==
    {<<RowHandlerFactory(DataRow(symbol_name, "", 0, "")), symbol_name>> :
        symbol_name \in SymbolNames}

decoded_names ==
    [fs \in SourceTrees |-> [decoded \in SymbolHandlers |->
        _get_module_and_function(decoded[1], fs, decoded[2])]]

module_and_function(handler, fs, symbol_name) ==
    IF fs \in SourceTrees /\ <<handler, symbol_name>> \in SymbolHandlers
    THEN decoded_names[fs][<<handler, symbol_name>>]
    ELSE _get_module_and_function(handler, fs, symbol_name)

\* the handlers of the symbols of the model, computed once
row_handlers ==
    [symbol_name \in SymbolNames |-> [build_definition \in BuildDefinitions |->
        RowHandlerFactory(DataRow(symbol_name, "", 0, build_definition))]]

row_handler_factory(row) ==
    IF row.symbol_name \in SymbolNames /\ row.build_definition \in BuildDefinitions
    THEN row_handlers[row.symbol_name][row.build_definition]
    ELSE RowHandlerFactory(row)

\* the special cases which we know are data
known_data(symbol_name) == Contains(symbol_name, "str1.1") \/ Contains(symbol_name, ".rodata")

known_data_names == [symbol_name \in SymbolNames |-> known_data(symbol_name)]

is_known_data(symbol_name) ==
    IF symbol_name \in SymbolNames THEN known_data_names[symbol_name]
    ELSE known_data(symbol_name)

\* the result of _is_data and the is_data_cached dict after the call
_is_data(handler, cache, fs, row) ==
    CASE handler = "RustRow" -> [result |-> Returns(FALSE), cache |-> cache]
      [] handler = "MicropythonRow" ->
           [result |-> Returns(StartsWith(row.symbol_name, "const_obj_")), cache |-> cache]
      [] handler = "CRow" -> is_data_cached(cache, fs, row.build_definition)

\* CommonRow.add_basic_info: the row as it is when the call returns or
\* raises, the exception raised, and the is_data_cached dict
CommonRow_add_basic_info(handler, cache, fs, row) ==
    LET with_language == [row EXCEPT !.language =
                             IF StartsWith(row.symbol_name, "[section") THEN ""
                             ELSE language(handler)]
        sized(named, data) ==
            IF data.result.raises # ""
            THEN [row |-> named, raises |-> data.result.raises, cache |-> data.cache]
            ELSE IF data.result.value
            THEN [row |-> [named EXCEPT !.data_size = row.size],
                  raises |-> "", cache |-> data.cache]
            ELSE [row |-> [named EXCEPT !.logic_size = row.size],
                  raises |-> "", cache |-> data.cache]
        split(named) ==
            IF is_known_data(row.symbol_name)
            THEN [row |-> [named EXCEPT !.data_size = row.size],
                  raises |-> "", cache |-> cache]
            ELSE sized(named, _is_data(handler, cache, fs, named))
        named(names) ==
            IF names.raises # ""
            THEN [row |-> with_language, raises |-> names.raises, cache |-> cache]
            ELSE split([with_language EXCEPT !.module_name = names.value[1],
                                             !.func_name   = names.value[2]])
    IN  named(module_and_function(handler, fs, row.symbol_name))

(***************************************************************************)
(* SourceDefinitionCache.  self.symbol_definitions is whatever json.load   *)
(* returned: a dict of entries, or a JSON value of another shape.          *)
(***************************************************************************)
\* JSON values: {...}, [] and null
JsonDict(items) == [kind |-> "dict", items |-> items]

JsonList == [kind |-> "list", items |-> EmptyDict]

JsonNull == [kind |-> "null", items |-> EmptyDict]

\* the values of a dict: {"definition": ..., "file_hash": ...}, or a number
SourceDefinition(definition, file_hash) ==
    [kind |-> "dict", definition |-> definition, file_hash |-> file_hash]

JsonNumber == [kind |-> "number", definition |-> "", file_hash |-> ""]

\* repr() of a str, of a bool and of None
repr(s) == "'" \o s \o "'"

repr_bool(b) == IF b THEN "True" ELSE "False"

repr_None == "None"

\* hashlib.md5(content).hexdigest(): one digest per content
md5_hexdigest(content) ==
    CASE content = CFileV1 -> "5f2b"
      [] content = CFileV2 -> "a3c9"
      [] content = RustFileV1 -> "7e10"
      [] content = RustFileV2 -> "c4d6"
      [] content = PyFileV1 -> "19ab"
      [] content = PyFileV2 -> "e87f"
      [] OTHER -> "d41d"

_get_file_hash(fs, file_path) ==
    IF is_file(fs, file_path) THEN Returns(md5_hexdigest(fs[file_path]))
    ELSE IF exists(fs, file_path) THEN Raises("IsADirectoryError")
    ELSE Returns("")

\* paths of the model are relative to ROOT_DIR
_get_file_location_with_line(symbol_definition) == symbol_definition

_get_file_location_from_definition(symbol_definition) == SplitFirst(symbol_definition, ":")

_hash_from_definition(fs, definition) ==
    _get_file_hash(fs, _get_file_location_from_definition(definition))

\* `symbol in self.symbol_definitions`
symbol_in(symbol_definitions, symbol) ==
    CASE symbol_definitions.kind = "dict" -> Returns(symbol \in DOMAIN symbol_definitions.items)
      [] symbol_definitions.kind = "list" -> Returns(FALSE)
      [] OTHER -> Raises("TypeError")

\* add that keeps the definition a symbol already has
add_if_absent(symbol_definitions, fs, symbol, definition) ==
    LET file_hash == IF definition = "" THEN Returns("")
                     ELSE _hash_from_definition(fs, definition)
    IN  IF file_hash.raises # ""
        THEN [raises |-> file_hash.raises, symbol_definitions |-> symbol_definitions]
        ELSE IF symbol_definitions.kind # "dict"
        THEN [raises |-> "TypeError", symbol_definitions |-> symbol_definitions]
        ELSE IF symbol \in DOMAIN symbol_definitions.items
        THEN [raises |-> "", symbol_definitions |-> symbol_definitions]
        ELSE [raises |-> "",
              symbol_definitions |->
                  JsonDict(Store(symbol_definitions.items, symbol,
                                 SourceDefinition(definition, file_hash.value)))]

\* add(symbol, definition): the exception raised and the dict after the call
add(symbol_definitions, fs, symbol, definition) ==
    LET file_hash == IF definition = "" THEN Returns("")
                     ELSE _hash_from_definition(fs, definition)
    IN  IF file_hash.raises # ""
        THEN [raises |-> file_hash.raises, symbol_definitions |-> symbol_definitions]
        ELSE IF symbol_definitions.kind # "dict"
        THEN [raises |-> "TypeError", symbol_definitions |-> symbol_definitions]
        ELSE [raises |-> "",
              symbol_definitions |->
                  JsonDict(Store(symbol_definitions.items, symbol,
                                 SourceDefinition(definition, file_hash.value)))]

\* get(symbol): repr() of what is returned
get(symbol_definitions, symbol) ==
    LET found == symbol_in(symbol_definitions, symbol)
    IN  IF found.raises # "" THEN found
        ELSE IF ~found.value THEN Returns(repr_None)
        ELSE IF symbol_definitions.items[symbol].kind # "dict" THEN Raises("TypeError")
        ELSE Returns(repr(symbol_definitions.items[symbol].definition))

\* is_invalidated that compares the hash for empty definitions too
is_invalidated_also_when_empty(symbol_definitions, fs, symbol) ==
    LET found == symbol_in(symbol_definitions, symbol)
    IN  IF found.raises # "" THEN found
        ELSE IF ~found.value THEN Returns(FALSE)
        ELSE IF symbol_definitions.items[symbol].kind # "dict" THEN Raises("TypeError")
        ELSE LET definition == symbol_definitions.items[symbol].definition
                 last_hash  == symbol_definitions.items[symbol].file_hash
                 file_hash  == _get_file_hash(fs, _get_file_location_from_definition(definition))
             IN  IF definition = "" THEN Returns(TRUE)
                 ELSE IF file_hash.raises # "" THEN file_hash
                 ELSE Returns(file_hash.value # last_hash)

is_invalidated(symbol_definitions, fs, symbol) ==
    LET found == symbol_in(symbol_definitions, symbol)
    IN  IF found.raises # "" THEN found
        ELSE IF ~found.value THEN Returns(FALSE)
        ELSE IF symbol_definitions.items[symbol].kind # "dict" THEN Raises("TypeError")
        ELSE LET definition == symbol_definitions.items[symbol].definition
                 last_hash  == symbol_definitions.items[symbol].file_hash
                 file_hash  == _get_file_hash(fs, _get_file_location_from_definition(definition))
             IN  IF definition = "" THEN Returns(FALSE)
                 ELSE IF file_hash.raises # "" THEN file_hash
                 ELSE Returns(file_hash.value # last_hash)

\* the cache file: missing, text that is no JSON, bytes that are no text,
\* or a JSON value
NoFile == [kind |-> "missing", json |-> JsonNull]

NotJson == [kind |-> "text", json |-> JsonNull]

NotText == [kind |-> "bytes", json |-> JsonNull]

JsonFile(value) == [kind |-> "json", json |-> value]

_load_cache_from_file(cache_file) ==
    CASE cache_file.kind = "missing" -> Returns(JsonDict(EmptyDict))
      [] cache_file.kind = "text" -> Returns(JsonDict(EmptyDict))
      [] cache_file.kind = "bytes" -> Raises("UnicodeDecodeError")
      [] cache_file.kind = "json" -> Returns(cache_file.json)

\* json.dump of the values of the model; json.load gives them back
_save_cache_to_file(symbol_definitions) == JsonFile(symbol_definitions)

(***************************************************************************)
(* _get_definition of the three handlers.  The C and Rust handlers run     *)
(* grep on the source tree.                                                *)
(***************************************************************************)
\* str(n) of a natural number
RECURSIVE str(_)
str(n) ==
    IF n < 10 THEN CharAt("0123456789", n + 1)
    ELSE str(n \div 10) \o CharAt("0123456789", (n % 10) + 1)

\* s.lstrip() and s.strip() of a line of words and spaces
RECURSIVE lstrip(_)
lstrip(s) == IF StartsWith(s, " ") THEN lstrip(Tail(s)) ELSE s

RECURSIVE strip(_)
strip(s) == IF EndsWith(s, " ") THEN strip(DropLast(s, 1)) ELSE lstrip(s)

\* \b between the characters i and i + 1 of a line
word_boundary(line, i) ==
    (i >= 1 /\ CharAt(line, i) \in WordChars)
        # (i < Len(line) /\ CharAt(line, i + 1) \in WordChars)

\* the symbols a grep pattern takes as they are
is_literal(symbol_name) ==
    Len(symbol_name) > 0
    /\ \A i \in 1..Len(symbol_name) : CharAt(symbol_name, i) \in WordChars \cup {":"}

\* whether \b<symbol>\b, or \b<symbol> when the end is open, matches the
\* line; a symbol with an unmatched parenthesis is no pattern, and grep
\* prints nothing
grep_matches(line, symbol_name, open_end) ==
    /\ is_literal(symbol_name)
    /\ \E i \in Occurrences(line, symbol_name) :
           /\ word_boundary(line, i - 1)
           /\ open_end \/ word_boundary(line, i + Len(symbol_name) - 1)

\* the .c and .h files grep -R reads below a directory; the tree of the
\* model holds one C source, so the order of the walk does not show
c_sources(fs, dir) ==
    LET found == {path \in DOMAIN fs :
                     /\ is_file(fs, path)
                     /\ StartsWith(path, dir \o "/")
                     /\ (EndsWith(path, ".c") \/ EndsWith(path, ".h"))}
    IN  CHOOSE order \in [1..Cardinality(found) -> found] :
            \A path \in found : \E i \in 1..Cardinality(found) : order[i] = path

\* the lines grep -n prints for one file: <<file_name, line_num, content>>
grep_file(fs, path, symbol_name) ==
    LET hits == {i \in 1..Len(fs[path]) : grep_matches(fs[path][i], symbol_name, FALSE)}
    IN  SelectSeq([i \in 1..Len(fs[path]) |-> <<path, i, fs[path][i]>>],
                  LAMBDA grep_line : grep_line[2] \in hits)

RECURSIVE grep_files(_, _, _)
grep_files(fs, paths, symbol_name) ==
    IF Len(paths) = 0 THEN <<>>
    ELSE grep_file(fs, paths[1], symbol_name) \o grep_files(fs, Tail(paths), symbol_name)

\* fnmatch(word, def_pattern) for the patterns of def_pattern_words
fnmatch(word, def_pattern) ==
    IF EndsWith(def_pattern, "*") THEN StartsWith(word, DropLast(def_pattern, 1))
    ELSE IF StartsWith(def_pattern, "*") THEN EndsWith(word, Tail(def_pattern))
    ELSE word = def_pattern

def_pattern_words ==
    {"static", "const", "void", "bool", "char", "char*", "secbool", "float", "uint*",
     "int*", "__int*", "mp_obj_t", "mp_*", "size_t", "qstr", "STATIC", "FRESULT",
     "DRESULT", "DWORD", "*TypeDef", "*RETURN"}

validate_line_for_definition(content, symbol_name, accept_declaration) ==
    LET valid(line_content, after_symbols, before_symbols) ==
            IF StartsWith(symbol_name, "Font_Roboto") THEN Contains(line_content, "const")
            ELSE IF ~accept_declaration /\ EndsWith(line_content, ";")
                    /\ ~Contains(after_symbols, "=")
            THEN FALSE
            ELSE IF StartsWithAny(line_content, <<"/", "*", "#">>) THEN FALSE
            ELSE IF StartsWith(line_content, symbol_name \o "(") THEN TRUE
            ELSE IF StartsWith(line_content, "} " \o symbol_name) THEN TRUE
            ELSE IF ~accept_declaration
                    /\ ~StartsWithAny(after_symbols, <<"[", "(", " =">>)
                    /\ ~StartsWith(lstrip(after_symbols), "(")
            THEN FALSE
            ELSE IF Contains(before_symbols, ",") THEN FALSE
            ELSE IF ~Contains(before_symbols, "ALIGN") /\ Contains(before_symbols, "(")
            THEN FALSE
            ELSE \E i \in DOMAIN words(before_symbols) :
                     \E def_pattern \in def_pattern_words \cup
                            (IF Contains(symbol_name, "_context")
                             THEN {"secp256k1_context"} ELSE {}) :
                         fnmatch(words(before_symbols)[i], def_pattern)
        split(line_content) ==
            IF Contains(line_content, symbol_name)
            THEN valid(line_content, SplitRest(line_content, symbol_name),
                       SplitFirst(line_content, symbol_name))
            ELSE valid(line_content, line_content, line_content)
    IN  split(strip(content))

RECURSIVE find_definition_in_lines(_, _, _)
find_definition_in_lines(symbol_name, grep_lines, accept_declaration) ==
    IF Len(grep_lines) = 0 THEN ""
    ELSE IF validate_line_for_definition(grep_lines[1][3], symbol_name, accept_declaration)
    THEN grep_lines[1][1] \o ":" \o str(grep_lines[1][2])
    ELSE find_definition_in_lines(symbol_name, Tail(grep_lines), accept_declaration)

get_existing_definition(fs, name, accept_declaration) ==
    LET found(symbol_name, paths) ==
            find_definition_in_lines(symbol_name, grep_files(fs, paths, symbol_name),
                                     accept_declaration)
        search(symbol_name) ==
            IF StartsWith(symbol_name, "mod_trezor")
            THEN found(symbol_name, c_sources(fs, "embed/extmod"))
            ELSE found(symbol_name, c_sources(fs, "vendor") \o c_sources(fs, "embed"))
    IN  search(SplitFirst(name, "."))

\* grep -l: the first file with a line that matches \b<symbol>
find_at_least_something(fs, symbol_name, dir_to_search) ==
    LET listed == SelectSeq(c_sources(fs, dir_to_search),
                            LAMBDA path : \E i \in 1..Len(fs[path]) :
                                             grep_matches(fs[path][i], symbol_name, TRUE))
    IN  IF Len(listed) = 0 THEN "" ELSE listed[1]

get_default_definition(fs, symbol_name) ==
    LET vendor == find_at_least_something(fs, symbol_name, "vendor")
        mod_mp_result == find_at_least_something(fs, symbol_name, "embed/extmod")
        declared(possible_declaration) ==
            IF possible_declaration # "" THEN SplitFirst(possible_declaration, ":")
            ELSE IF StartsWithAny(symbol_name, <<"mod_", "mp_">>)
                    /\ \E suffix \in {"_obj", "_locals_dict", "_locals_dict_table", "_globals"} :
                           EndsWith(symbol_name, suffix)
                    /\ mod_mp_result # ""
            THEN mod_mp_result
            ELSE IF vendor # "" THEN vendor
            ELSE find_at_least_something(fs, symbol_name, "embed")
    IN  declared(get_existing_definition(fs, symbol_name, TRUE))

\* paths of the model are relative to ROOT_DIR already
CRow_get_definition(fs, row) ==
    LET result(really_existing_definition) ==
            IF really_existing_definition # "" THEN really_existing_definition
            ELSE get_default_definition(fs, row.func_name)
    IN  Returns(result(get_existing_definition(fs, row.func_name, FALSE)))

\* grep -m1 -n "fn <name>[(<]" <file> | cut -d: -f1
get_line_num(fs, module_name, func_name) ==
    LET name == Split(Replace(func_name, "()", ""), "::")
        hit(line, to_search) ==
            Contains(line, to_search \o "(") \/ Contains(line, to_search \o "<")
        first(lines, to_search) ==
            IF \E i \in 1..Len(lines) : hit(lines[i], to_search)
            THEN str(Min({i \in 1..Len(lines) : hit(lines[i], to_search)}))
            ELSE ""
    IN  IF ~is_file(fs, module_name) \/ ~is_literal(name[Len(name)]) THEN ""
        ELSE first(fs[module_name], "fn " \o name[Len(name)])

RustRow_get_definition(fs, row) ==
    LET located(line_num) ==
            IF line_num # "" THEN row.module_name \o ":" \o line_num ELSE ""
    IN  IF row.func_name = "" THEN Returns(row.module_name)
        ELSE IF row.module_name = "" THEN Returns("")
        ELSE Returns(located(get_line_num(fs, row.module_name, row.func_name)))

\* ObjectDefinition.get_line_number: 0 on any mismatch
RECURSIVE get_line_number(_, _)
get_line_number(current_object, symbols) ==
    IF Len(symbols) = 0 THEN current_object.start_line
    ELSE IF EndsWith(symbols[1], "()")
    THEN IF DropLast(symbols[1], 2) \notin func_names(current_object) THEN 0
         ELSE get_line_number(get_func(current_object, DropLast(symbols[1], 2)),
                              Tail(symbols))
    ELSE IF symbols[1] \notin class_names(current_object) THEN 0
         ELSE get_line_number(get_class(current_object, symbols[1]), Tail(symbols))

MicropythonRow_get_definition(fs, row) ==
    LET numbered(line_num) ==
            IF line_num # 0 THEN row.module_name \o ":" \o str(line_num) ELSE ""
        located(module_defs) ==
            IF module_defs.raises # "" THEN module_defs
            ELSE Returns(numbered(get_line_number(module_defs.value,
                                                  Split(row.func_name, "."))))
    IN  IF row.func_name = "" THEN Returns(row.module_name)
        ELSE located(get_module_object_definitions(fs, row.module_name))

_get_definition(handler, fs, row) ==
    CASE handler = "RustRow" -> RustRow_get_definition(fs, row)
      [] handler = "MicropythonRow" -> MicropythonRow_get_definition(fs, row)
      [] handler = "CRow" -> CRow_get_definition(fs, row)

(***************************************************************************)
(* CommonRow.add_definition and the cache of source definitions.           *)
(***************************************************************************)
\* what a call on a row leaves: the row, the exception raised, the
\* is_data_cached dict, the source definitions of the cache, and the
\* calls made on the cache and on _get_definition
Handled(row, raises, cache, symbol_definitions) ==
    [row |-> row, raises |-> raises, cache |-> cache,
     symbol_definitions |-> symbol_definitions, calls |-> <<>>]

\* the str whose repr() is given
unrepr(s) == Slice(s, 2, Len(s) - 1)

\* _get_definition_cached that trusts every entry of the cache
_get_definition_cached_never_invalidated(handler, symbol_definitions, fs, row) ==
    LET call(name) == <<name, row.symbol_name>>
        computed(result) ==
            [result |-> result,
             symbol_definitions |->
                 add(symbol_definitions, fs, row.symbol_name, result.value).symbol_definitions,
             calls |-> <<call("get"), call("_get_definition"), call("add")>>]
        looked_up(cached) ==
            IF cached.value = repr_None THEN computed(_get_definition(handler, fs, row))
            ELSE [result |-> Returns(unrepr(cached.value)),
                  symbol_definitions |-> symbol_definitions,
                  calls |-> <<call("get"), call("is_invalidated")>>]
    IN  looked_up(get(symbol_definitions, row.symbol_name))

\* CommonRow._get_definition_cached: the definition returned, the source
\* definitions after the call, and the calls made in their order
_get_definition_cached(handler, symbol_definitions, fs, row) ==
    LET call(name) == <<name, row.symbol_name>>
        added(calls, result, stored) ==
            IF stored.raises # ""
            THEN [result |-> Raises(stored.raises),
                  symbol_definitions |-> stored.symbol_definitions,
                  calls |-> calls \o <<call("_get_definition"), call("add")>>]
            ELSE [result |-> result, symbol_definitions |-> stored.symbol_definitions,
                  calls |-> calls \o <<call("_get_definition"), call("add")>>]
        computed(calls, result) ==
            IF result.raises # ""
            THEN [result |-> result, symbol_definitions |-> symbol_definitions,
                  calls |-> Append(calls, call("_get_definition"))]
            ELSE added(calls, result,
                       add(symbol_definitions, fs, row.symbol_name, result.value))
        computed_after(calls) == computed(calls, _get_definition(handler, fs, row))
        \* `not cached or is_invalidated(...)`: the second call is made only
        \* when the first has found an entry
        checked(cached, calls, invalidated) ==
            IF invalidated.raises # ""
            THEN [result |-> invalidated, symbol_definitions |-> symbol_definitions,
                  calls |-> calls]
            ELSE IF invalidated.value
            THEN computed_after(calls)
            ELSE [result |-> Returns(unrepr(cached.value)),
                  symbol_definitions |-> symbol_definitions,
                  calls |-> calls]
        looked_up(cached) ==
            IF cached.raises # ""
            THEN [result |-> cached, symbol_definitions |-> symbol_definitions,
                  calls |-> <<call("get")>>]
            ELSE checked(cached,
                         IF cached.value = repr_None THEN <<call("get")>>
                         ELSE <<call("get"), call("is_invalidated")>>,
                         IF cached.value = repr_None THEN Returns(TRUE)
                         ELSE is_invalidated(symbol_definitions, fs, row.symbol_name))
    IN  looked_up(get(symbol_definitions, row.symbol_name))

\* CommonRow.add_definition, after the definition was looked up
add_definition_defined(basic, definition, calls) ==
    LET called(handled) == [handled EXCEPT !.calls = calls \o definition.calls]
    IN  IF definition.result.raises # ""
        THEN called(Handled(basic.row, definition.result.raises, basic.cache,
                            definition.symbol_definitions))
        ELSE called(Handled([basic.row EXCEPT
                                 !.source_definition = definition.result.value],
                            "", basic.cache, definition.symbol_definitions))

\* add_definition that asks the cache for every row that is not synthetic
add_definition_located_without_fast_path(handler, symbol_definitions, fs, row, basic, calls) ==
    LET called(handled) == [handled EXCEPT !.calls = calls]
    IN  IF basic.raises # ""
        THEN called(Handled(basic.row, basic.raises, basic.cache, symbol_definitions))
        ELSE IF StartsWithAny(row.symbol_name, <<"[", ".", "str1">>) \/ row.symbol_name = ""
        THEN called(Handled(basic.row, "", basic.cache, symbol_definitions))
        ELSE add_definition_defined(basic,
                                    _get_definition_cached(handler, symbol_definitions,
                                                           fs, basic.row),
                                    calls)

\* CommonRow.add_definition, after the basic info is there
add_definition_located(handler, symbol_definitions, fs, row, basic, calls) ==
    LET called(handled) == [handled EXCEPT !.calls = calls]
    IN  IF basic.raises # ""
        THEN called(Handled(basic.row, basic.raises, basic.cache, symbol_definitions))
        ELSE IF StartsWithAny(row.symbol_name, <<"[", ".", "str1">>) \/ row.symbol_name = ""
        THEN called(Handled(basic.row, "", basic.cache, symbol_definitions))
        ELSE IF row.build_definition # ""
                /\ ~Contains(row.build_definition, "build/firmware/frozen_mpy.c")
        THEN called(Handled([basic.row EXCEPT !.source_definition = row.build_definition],
                            "", basic.cache, symbol_definitions))
        ELSE add_definition_defined(basic,
                                    _get_definition_cached(handler, symbol_definitions,
                                                           fs, basic.row),
                                    calls)

\* CommonRow.add_definition
CommonRow_add_definition(handler, cache, symbol_definitions, fs, row) ==
    add_definition_located(handler, symbol_definitions, fs, row,
        IF row.language = ""
        THEN CommonRow_add_basic_info(handler, cache, fs, row)
        ELSE [row |-> row, raises |-> "", cache |-> cache],
        IF row.language = "" THEN <<<<"add_basic_info", row.symbol_name>>>> ELSE <<>>)

(***************************************************************************)
(* The objects of a run.  DataRow objects live in `heap` under references; *)
(* lists hold references, so a row that is changed in place changes in     *)
(* every list that holds it.                                               *)
(***************************************************************************)
VARIABLES
    heap,                   \* DataRow objects, by reference
    row_data,               \* BinarySize.row_data: None or a list of references
    caller_rows,            \* the list the caller gave to load_data
    shares_caller_list,     \* whether row_data is that very list object
    called_aggregate,       \* BinarySize.called_aggregate
    called_add_basic_info,  \* BinarySize.called_add_basic_info
    is_data_cache,          \* the dict kept by file_cache around is_data_cached
    use_map_file_calls,     \* how many times use_map_file has been called
    commands_run,           \* the profiler commands run by get_csv_output
    handler_calls,          \* the calls the last method called on a row handler
                            \* directly made on the handler and on the cache
    files,                  \* the source tree below ROOT_DIR
    raised,                 \* the exception raised by the last call, "" if none
    symbol_definitions,     \* SourceDefinitionCache.symbol_definitions
    cache_file_path,        \* SourceDefinitionCache.cache_file_path
    cache_file,             \* the file at DEFINITIONS_CACHE_FILE
    returned                \* repr() of what the last call returned, "" before any call

vars == <<heap, row_data, caller_rows, shares_caller_list, called_aggregate,
          called_add_basic_info, is_data_cache, use_map_file_calls, commands_run,
          handler_calls, files, raised, symbol_definitions, cache_file_path, cache_file, returned>>

\* what the calls made so far have left outside the objects
call_vars == <<use_map_file_calls, commands_run, handler_calls>>

\* the state of BinarySize and of the source-definition cache
pipeline_vars == <<heap, row_data, caller_rows, shares_caller_list, called_aggregate,
                   called_add_basic_info, is_data_cache, use_map_file_calls, commands_run,
                   handler_calls>>

cache_vars == <<symbol_definitions, cache_file_path, cache_file, returned>>

\* row_data before any load
None == <<0>>

NO_DATA_MSG == "AssertionError: There are no data. Call load_xxx() first."

\* the first n references not in use
RECURSIVE fresh_refs(_, _)
fresh_refs(used, n) ==
    IF n = 0 THEN <<>>
    ELSE LET r == Min({k \in 1..(Cardinality(used) + 1) : k \notin used})
         IN  <<r>> \o fresh_refs(used \cup {r}, n - 1)

\* objects no list refers to are collected
collect(h, lists) ==
    LET live == UNION {Range(l) : l \in lists}
    IN  [r \in DOMAIN h \cap live |-> h[r]]

rows_of(h, refs) == [i \in 1..Len(refs) |-> h[refs[i]]]

\* the lists of at most n different members of S
RECURSIVE ListsOf(_, _)
ListsOf(S, n) ==
    IF n = 0 THEN {<<>>}
    ELSE LET shorter == ListsOf(S, n - 1)
         IN  shorter \cup UNION {{Append(l, x) : x \in S \ Range(l)} :
                                     l \in {m \in shorter : Len(m) = n - 1}}

\* no SourceDefinitionCache object yet
Unconstructed == [kind |-> "unconstructed", items |-> EmptyDict]

Init ==
    /\ heap = <<>>
    /\ row_data = None
    /\ caller_rows = <<>>
    /\ shares_caller_list = FALSE
    /\ called_aggregate = FALSE
    /\ called_add_basic_info = FALSE
    /\ is_data_cache = EmptyDict
    /\ use_map_file_calls = 0
    /\ commands_run = {}
    /\ handler_calls = <<>>
    /\ files = SourceTree
    /\ raised = ""
    /\ symbol_definitions = Unconstructed
    /\ cache_file_path = repr_None
    /\ cache_file = NoFile
    /\ returned = ""

(***************************************************************************)
(* BinarySize                                                              *)
(***************************************************************************)
\* load_data(rows) -> _load(row_data=rows)
load_data(rows) ==
    IF row_data # None
    THEN /\ raised' = "AssertionError: Data already loaded"
         /\ UNCHANGED <<heap, row_data, caller_rows, shares_caller_list, called_aggregate,
                        called_add_basic_info, is_data_cache, files, call_vars, cache_vars>>
    ELSE IF Len(rows) = 0
    THEN /\ raised' = "AssertionError: only one load option can be specified"
         /\ UNCHANGED <<heap, row_data, caller_rows, shares_caller_list, called_aggregate,
                        called_add_basic_info, is_data_cache, files, call_vars, cache_vars>>
    ELSE /\ heap' = rows
         /\ row_data' = [i \in 1..Len(rows) |-> i]
         /\ caller_rows' = [i \in 1..Len(rows) |-> i]
         /\ shares_caller_list' = TRUE
         /\ raised' = ""
         /\ UNCHANGED <<called_aggregate, called_add_basic_info, is_data_cache, files, call_vars, cache_vars>>

\* the lists a caller passes: any list before the load; once data are
\* loaded the call fails whatever the list is
LoadInputs ==
    IF row_data = None THEN ListsOf(BinarySymbols, MaxRows)
    ELSE {<<>>, <<DataRow("foo", ".init_array", 1, "embed/a.c:2")>>}

LoadData == \E rows \in LoadInputs : load_data(rows)

no_data ==
    /\ row_data = None
    /\ raised' = NO_DATA_MSG
    /\ UNCHANGED <<heap, row_data, caller_rows, shares_caller_list, called_aggregate,
                   called_add_basic_info, is_data_cache, files, call_vars, cache_vars>>

\* aggregate_rows on objects: the new objects and the list of them
aggregate_objects(h, refs) ==
    LET new_rows == aggregate_rows(rows_of(h, refs))
        new_refs == fresh_refs(DOMAIN h, Len(new_rows))
    IN  [heap |-> [r \in DOMAIN h \cup Range(new_refs) |->
                      IF r \in DOMAIN h THEN h[r]
                      ELSE new_rows[CHOOSE k \in 1..Len(new_refs) : new_refs[k] = r]],
         rows |-> new_refs]

aggregate ==
    \/ no_data
    \/ /\ row_data # None
       /\ LET result == aggregate_objects(heap, row_data)
          IN  /\ row_data' = result.rows
              /\ heap' = collect(result.heap, {result.rows, caller_rows})
       /\ shares_caller_list' = FALSE
       /\ called_aggregate' = TRUE
       /\ raised' = ""
       /\ UNCHANGED <<caller_rows, called_add_basic_info, is_data_cache, files, call_vars, cache_vars>>

\* the list comprehension of add_basic_info, row by row: the heap, the
\* is_data_cached dict and the exception that ended it, if any
RECURSIVE add_basic_info_rows(_, _, _, _)
add_basic_info_rows(h, cache, fs, refs) ==
    IF Len(refs) = 0 THEN [heap |-> h, cache |-> cache, raises |-> ""]
    ELSE LET next(h2, result) ==
                 IF result.raises # ""
                 THEN [heap |-> h2, cache |-> result.cache, raises |-> result.raises]
                 ELSE add_basic_info_rows(h2, result.cache, fs, Tail(refs))
             handled(result) == next([h EXCEPT ![refs[1]] = result.row], result)
             handle(row) ==
                 handled(CommonRow_add_basic_info(row_handler_factory(row), cache, fs, row))
         IN  handle(h[refs[1]])

add_basic_info ==
    \/ no_data
    \/ /\ row_data # None
       /\ LET ends(result) ==
                  /\ heap' = result.heap
                  /\ is_data_cache' = result.cache
                  /\ raised' = result.raises
                  /\ called_add_basic_info' = (IF result.raises = "" THEN TRUE
                                               ELSE called_add_basic_info)
                  /\ shares_caller_list' = (IF result.raises = "" THEN FALSE
                                            ELSE shares_caller_list)
          IN  ends(add_basic_info_rows(heap, is_data_cache, files, row_data))
       /\ UNCHANGED <<row_data, caller_rows, called_aggregate, files, call_vars, cache_vars>>

\* list.sort(key=key, reverse=reverse): stable, also when reversed
RECURSIVE sorted(_, _, _)
sorted(h, refs, reverse) ==
    IF Len(refs) = 0 THEN <<>>
    ELSE LET front  == sorted(h, SubSeq(refs, 1, Len(refs) - 1), reverse)
             last   == refs[Len(refs)]
             before == {i \in 1..Len(front) :
                           IF reverse THEN h[front[i]].size >= h[last].size
                           ELSE h[front[i]].size <= h[last].size}
             at     == IF before = {} THEN 0 ELSE MaxOf(before)
         IN  SubSeq(front, 1, at) \o <<last>> \o SubSeq(front, at + 1, Len(front))

\* sort() with the default key, the size of the row
sort(reverse) ==
    \/ no_data
    \/ /\ row_data # None
       /\ row_data' = sorted(heap, row_data, reverse)
       /\ caller_rows' = (IF shares_caller_list THEN row_data' ELSE caller_rows)
       /\ raised' = ""
       /\ UNCHANGED <<heap, shares_caller_list, called_aggregate, called_add_basic_info,
                      is_data_cache, files, call_vars, cache_vars>>

Sort == \E reverse \in BOOLEAN : sort(reverse)

\* the filter functions a caller passes
FilterFuncs == {"section == .init", "language == C", "size > 2"}

call_filter_func(filter_func, row) ==
    CASE filter_func = "section == .init" -> row.section = ".init"
      [] filter_func = "language == C" -> row.language = "C"
      [] filter_func = "size > 2" -> row.size > 2

RECURSIVE filtered(_, _, _)
filtered(h, refs, filter_func) ==
    IF Len(refs) = 0 THEN <<>>
    ELSE IF call_filter_func(filter_func, h[refs[1]])
         THEN <<refs[1]>> \o filtered(h, Tail(refs), filter_func)
         ELSE filtered(h, Tail(refs), filter_func)

filter(filter_func) ==
    \/ no_data
    \/ /\ row_data # None
       /\ row_data' = filtered(heap, row_data, filter_func)
       /\ heap' = collect(heap, {row_data', caller_rows})
       /\ shares_caller_list' = FALSE
       /\ raised' = ""
       /\ UNCHANGED <<caller_rows, called_aggregate, called_add_basic_info,
                      is_data_cache, files, call_vars, cache_vars>>

Filter == \E filter_func \in FilterFuncs : filter(filter_func)

Next ==
    \/ LoadData
    \/ aggregate
    \/ add_basic_info
    \/ Sort
    \/ Filter

Spec == Init /\ [][Next]_vars

(***************************************************************************)
(* SourceDefinitionCache: the calls of one run after another.  A run       *)
(* constructs the cache, calls it and exits; files are edited at any time. *)
(***************************************************************************)
DEFINITIONS_CACHE_FILE == "DEFINITIONS_CACHE.json"

\* what a run may find at DEFINITIONS_CACHE_FILE before the first run
CacheFiles ==
    {NoFile, NotJson, NotText, JsonFile(JsonList), JsonFile(JsonNull),
     JsonFile(JsonDict(Store(EmptyDict, "foo", JsonNumber)))}

\* the symbols and definitions the callers of the cache pass
CacheSymbols == {"foo", "array_foo"}

CacheDefinitions == {"", "embed/a.c:1", "src/apps/base.py:1"}

\* the edits of the source tree
Edits ==
    {<<"embed/a.c", CFileV1>>, <<"embed/a.c", CFileV2>>, <<"embed/a.c", Missing>>}

InitCache ==
    /\ heap = <<>>
    /\ row_data = None
    /\ caller_rows = <<>>
    /\ shares_caller_list = FALSE
    /\ called_aggregate = FALSE
    /\ called_add_basic_info = FALSE
    /\ is_data_cache = EmptyDict
    /\ use_map_file_calls = 0
    /\ commands_run = {}
    /\ handler_calls = <<>>
    /\ files = SourceTree
    /\ raised = ""
    /\ symbol_definitions = Unconstructed
    /\ cache_file_path = repr_None
    /\ cache_file \in CacheFiles
    /\ returned = ""

constructed == symbol_definitions # Unconstructed

\* SourceDefinitionCache(cache_file_path)
__init__(path) ==
    /\ ~constructed
    /\ LET loaded == IF path = repr_None THEN Returns(JsonDict(EmptyDict))
                     ELSE _load_cache_from_file(cache_file)
       IN  /\ raised' = loaded.raises
           /\ symbol_definitions' = (IF loaded.raises = "" THEN loaded.value
                                     ELSE Unconstructed)
           /\ cache_file_path' = (IF loaded.raises = "" THEN path ELSE repr_None)
    /\ returned' = ""
    /\ UNCHANGED <<pipeline_vars, files, cache_file>>

Construct == \E path \in {repr_None, DEFINITIONS_CACHE_FILE} : __init__(path)

call_add(symbol, definition) ==
    /\ constructed
    /\ LET result == add(symbol_definitions, files, symbol, definition)
       IN  /\ symbol_definitions' = result.symbol_definitions
           /\ raised' = result.raises
           /\ returned' = (IF result.raises = "" THEN repr_None ELSE "")
    /\ UNCHANGED <<pipeline_vars, files, cache_file_path, cache_file>>

Add == \E symbol \in CacheSymbols, definition \in CacheDefinitions : call_add(symbol, definition)

call_get(symbol) ==
    /\ constructed
    /\ LET result == get(symbol_definitions, symbol)
       IN  /\ raised' = result.raises
           /\ returned' = (IF result.raises = "" THEN result.value ELSE "")
    /\ UNCHANGED <<pipeline_vars, files, symbol_definitions, cache_file_path, cache_file>>

Get == \E symbol \in CacheSymbols : call_get(symbol)

call_is_invalidated(symbol) ==
    /\ constructed
    /\ LET result == is_invalidated(symbol_definitions, files, symbol)
       IN  /\ raised' = result.raises
           /\ returned' = (IF result.raises = "" THEN repr_bool(result.value) ELSE "")
    /\ UNCHANGED <<pipeline_vars, files, symbol_definitions, cache_file_path, cache_file>>

IsInvalidated == \E symbol \in CacheSymbols : call_is_invalidated(symbol)

\* the exit of the run: atexit calls _save_cache_to_file if a path was given
Exit ==
    /\ constructed
    /\ cache_file' = (IF cache_file_path = repr_None THEN cache_file
                      ELSE _save_cache_to_file(symbol_definitions))
    /\ symbol_definitions' = Unconstructed
    /\ cache_file_path' = repr_None
    /\ raised' = ""
    /\ returned' = ""
    /\ UNCHANGED <<pipeline_vars, files>>

\* somebody edits, creates or deletes a source file
edit_file(path, content) ==
    /\ files[path] # content
    /\ files' = [files EXCEPT ![path] = content]
    /\ UNCHANGED <<pipeline_vars, raised, cache_vars>>

EditFile == \E edit \in Edits : edit_file(edit[1], edit[2])

NextCache ==
    \/ Construct
    \/ Add
    \/ Get
    \/ IsInvalidated
    \/ Exit
    \/ EditFile

SpecCache == InitCache /\ [][NextCache]_vars

(***************************************************************************)
(* RowHandlerFactory on its own: a row is given, the factory is called.    *)
(***************************************************************************)
FactorySymbolNames ==
    {"trezor_lib::a", "compiler_builtins::a", "core::fmt", "_$LT$T$GT$::a", "heapless::Vec",
     "cstr_core::c", "_ZN4core3fmt", "unlikely._ZN4core",
     "fun_data_apps_x", "const_table_data_apps_x", "const_obj_apps_x", "raw_code_apps_x",
     "foo", "core", "core_fmt", "Fun_data_x", "fun_data", "x_fun_data_y", "x.core::y",
     "[section .init]", "unlikely.foo", "_Z", ""}

FactoryBuildDefinitions ==
    {"", "/cargo/registry/a.rs:1", "/cargo/", "/cargo", "cargo/a.rs:1", "build//cargo/a.rs:1",
     "embed/a.c:1"}

FactoryRows ==
    {DataRow(symbol_name, ".text", 4, build_definition) :
        symbol_name \in FactorySymbolNames, build_definition \in FactoryBuildDefinitions}

InitFactory ==
    /\ heap \in {<<row>> : row \in FactoryRows}
    /\ row_data = None
    /\ caller_rows = <<>>
    /\ shares_caller_list = FALSE
    /\ called_aggregate = FALSE
    /\ called_add_basic_info = FALSE
    /\ is_data_cache = EmptyDict
    /\ use_map_file_calls = 0
    /\ commands_run = {}
    /\ handler_calls = <<>>
    /\ files = SourceTree
    /\ raised = ""
    /\ symbol_definitions = Unconstructed
    /\ cache_file_path = repr_None
    /\ cache_file = NoFile
    /\ returned = ""

\* RowHandlerFactory()(row): the class of the handler that is returned
CallFactory ==
    /\ returned = ""
    /\ returned' = RowHandlerFactory(heap[1])
    /\ UNCHANGED <<pipeline_vars, files, raised, symbol_definitions, cache_file_path,
                   cache_file>>

NextFactory == CallFactory

SpecFactory == InitFactory /\ [][NextFactory]_vars

(***************************************************************************)
(* The decoders on their own: a symbol is given and one of                 *)
(* MicropythonRow._get_module_and_function and get_real_symbol_from_alias  *)
(* is called on it.                                                        *)
(***************************************************************************)
\* repr() of a tuple of two str
repr_tuple(pair) == "(" \o repr(pair[1]) \o ", " \o repr(pair[2]) \o ")"

DecodeTrees == {SourceTree, [SourceTree EXCEPT !["src/apps/base.py"] = PyFileV2]}

\* the symbol name micropython gives to an object of a file below src/
flattened(path) == Replace(DropLast(DropFirst(path, 4), 3), "/", "_")

MODULE_MARKER == "__lt_module_gt__"

MarkedSymbol(prefix, path, name) == prefix \o flattened(path) \o MODULE_MARKER \o name

PythonFiles(fs) == {path \in DOMAIN fs : is_file(fs, path) /\ EndsWith(path, ".py")}

TopLevelFunctions(fs, path) ==
    IF parsed_objects(fs[path], path).raises # "" THEN {}
    ELSE func_names(parsed_objects(fs[path], path).value)

MpySymbolNames ==
    {MarkedSymbol(MPY_PREFIXES[i], "src/apps/base.py", name) :
        i \in 1..Len(MPY_PREFIXES), name \in {"get_features", "Cls_meth", "unknown"}}
    \cup {"fun_data_apps_base__lt_module_gt_", "fun_data_apps_base_get_features",
          "fun_data_apps_base_get_features_3", "fun_data_apps_base_Cls_meth",
          "raw_code_apps_unexisting_base__lt_module_gt__get_features"}

\* the types A of an alias: concrete types, and generic or reference types
ConcreteTypes ==
    {"core::fmt::builders::PadAdapter", "heapless::string::String<_>", "usize", "u8"}

GenericTypes == {"&mut W", "&T", "T"}

AliasTypes ==
    ConcreteTypes \cup GenericTypes
    \cup {"&mut core::fmt::Formatter", "<T as core::iter::Iterator>::Item"}

AliasTraits == {"core::fmt::Write", "core::convert::TryInto<U>", "Trace"}

AliasFunctions == {"write_str", "try_into"}

Alias(type, trait, func) == "_<" \o type \o " as " \o trait \o ">::" \o func

AliasSymbolNames ==
    {Alias(type, trait, func) :
        type \in AliasTypes, trait \in AliasTraits, func \in AliasFunctions}

DecodeSymbolNames == MpySymbolNames \cup AliasSymbolNames

InitDecode ==
    /\ heap \in {<<DataRow(symbol_name, ".flash", 4, "")>> : symbol_name \in DecodeSymbolNames}
    /\ row_data = None
    /\ caller_rows = <<>>
    /\ shares_caller_list = FALSE
    /\ called_aggregate = FALSE
    /\ called_add_basic_info = FALSE
    /\ is_data_cache = EmptyDict
    /\ use_map_file_calls = 0
    /\ commands_run = {}
    /\ handler_calls = <<>>
    /\ files \in DecodeTrees
    /\ raised = ""
    /\ symbol_definitions = Unconstructed
    /\ cache_file_path = repr_None
    /\ cache_file = NoFile
    /\ returned = ""

\* the call returns a value, or raises
returns(result, repr_of(_)) ==
    /\ raised' = result.raises
    /\ returned' = (IF result.raises # "" THEN "" ELSE repr_of(result.value))
    /\ UNCHANGED <<pipeline_vars, files, symbol_definitions, cache_file_path, cache_file>>

\* MicropythonRow()._get_module_and_function(symbol_name)
call_get_module_and_function ==
    /\ returned = "" /\ raised = ""
    /\ returns(MicropythonRow_get_module_and_function(files, heap[1].symbol_name), repr_tuple)

\* get_real_symbol_from_alias(symbol_name)
call_get_real_symbol_from_alias ==
    /\ returned = "" /\ raised = ""
    /\ returns(get_real_symbol_from_alias(heap[1].symbol_name), repr)

NextDecode ==
    \/ call_get_module_and_function
    \/ call_get_real_symbol_from_alias

SpecDecode == InitDecode /\ [][NextDecode]_vars

(***************************************************************************)
(* Properties                                                              *)

(***************************************************************************)
(* get_symbols_we_miss on its own: a caller passes its rows, the sizes of  *)
(* the symbols of a map file and a section.                                *)
(***************************************************************************)
\* the dicts get_symbol_sizes returns for the map files, and the dict of
\* the documented example
MapSymbolSizes ==
    {get_symbol_sizes(map_file, section).value :
        map_file \in MapFiles,
        section \in {s \in Sections : \E f \in MapFiles : get_symbol_sizes(f, s).raises = ""}}

ExampleSymbolSizes ==
    Store(Store(Store(EmptyDict, "aaa", 1), "bbb.suffix", 2), "zzz", 3)

\* the orders in which a set may be iterated
Orders(S) == {order \in ListsOf(S, Cardinality(S)) : Len(order) = Cardinality(S)}

\* repr() of a set of strings iterated in the given order
repr_set(order) ==
    IF Len(order) = 0 THEN "set()"
    ELSE "{" \o Join([i \in 1..Len(order) |-> repr(order[i])], ", ") \o "}"

InitMissing ==
    /\ heap \in ListsOf(MapRows, MaxRows)
    /\ row_data = None
    /\ caller_rows = [i \in 1..Len(heap) |-> i]
    /\ shares_caller_list = FALSE
    /\ called_aggregate = FALSE
    /\ called_add_basic_info = FALSE
    /\ is_data_cache = EmptyDict
    /\ use_map_file_calls = 0
    /\ commands_run = {}
    /\ handler_calls = <<>>
    /\ files = SourceTree
    /\ raised = ""
    /\ symbol_definitions = Unconstructed
    /\ cache_file_path = repr_None
    /\ cache_file = NoFile
    /\ returned = ""

call_get_symbols_we_miss(map_symbol_sizes, section) ==
    /\ returned = ""
    /\ raised' = ""
    /\ \E order \in Orders(get_symbols_we_miss(rows_of(heap, caller_rows),
                                               map_symbol_sizes, section)) :
           returned' = repr_set(order)
    /\ UNCHANGED <<pipeline_vars, files, symbol_definitions, cache_file_path, cache_file>>

NextMissing ==
    \E map_symbol_sizes \in MapSymbolSizes \cup {ExampleSymbolSizes}, section \in Sections :
        call_get_symbols_we_miss(map_symbol_sizes, section)

SpecMissing == InitMissing /\ [][NextMissing]_vars

(***************************************************************************)
(* BinarySize with the map file and the definitions: a binary is loaded    *)
(* from a file or from rows, map files are included, definitions are added.*)
(***************************************************************************)
\* how many times use_map_file is called
MaxMapCalls == 1

\* the cache file a former run has left: an entry that is still valid and
\* one whose file has changed since
FormerCacheFile ==
    JsonFile(JsonDict(Store(Store(EmptyDict,
        "aaa", SourceDefinition("embed/a.c:1", md5_hexdigest(CFileV1))),
        "array_foo", SourceDefinition("embed/a.c:3", md5_hexdigest(CFileV2)))))

\* BinarySize() with its default arguments: the cache is constructed from
\* DEFINITIONS_CACHE_FILE
InitPipeline ==
    /\ heap = <<>>
    /\ row_data = None
    /\ caller_rows = <<>>
    /\ shares_caller_list = FALSE
    /\ called_aggregate = FALSE
    /\ called_add_basic_info = FALSE
    /\ is_data_cache = EmptyDict
    /\ use_map_file_calls = 0
    /\ commands_run = {}
    /\ handler_calls = <<>>
    /\ files = SourceTree
    /\ raised = ""
    /\ cache_file = FormerCacheFile
    /\ symbol_definitions = _load_cache_from_file(cache_file).value
    /\ cache_file_path = DEFINITIONS_CACHE_FILE
    /\ returned = ""

LoadRows ==
    \E rows \in IF row_data = None THEN PipelineRows \cup {<<>>}
                ELSE {<<DataRow("aaa", ".flash", 2, "")>>} :
        load_data(rows)

\* the commands load_data_from_file and BuildDefinitionLoader.load run
bloaty_cmd(bin_file) == "bloaty -n 0 -d sections,symbols -s vm --csv " \o bin_file

nm_cmd(bin_file) == "arm-none-eabi-nm --line-numbers --radix=dec --size-sort " \o bin_file

\* a load that runs the profiler on whatever path it is given; bloaty
\* fails on a missing file and get_csv_output exits
load_file_unchecked(bin_file) ==
    IF row_data # None
    THEN /\ raised' = "AssertionError: Data already loaded"
         /\ UNCHANGED <<heap, row_data, caller_rows, shares_caller_list, called_aggregate,
                        called_add_basic_info, is_data_cache, files, call_vars, cache_vars>>
    ELSE IF bin_file \notin DOMAIN Binaries
    THEN /\ raised' = "SystemExit"
         /\ commands_run' = commands_run \cup {bloaty_cmd(bin_file)}
         /\ UNCHANGED <<heap, row_data, caller_rows, shares_caller_list, called_aggregate,
                        called_add_basic_info, is_data_cache, use_map_file_calls,
                        handler_calls, files,
                        cache_vars>>
    ELSE /\ commands_run' = commands_run \cup {bloaty_cmd(bin_file), nm_cmd(bin_file)}
         /\ heap' = Binaries[bin_file]
         /\ row_data' = [i \in 1..Len(Binaries[bin_file]) |-> i]
         /\ shares_caller_list' = FALSE
         /\ raised' = ""
         /\ UNCHANGED <<caller_rows, called_aggregate, called_add_basic_info, is_data_cache,
                        use_map_file_calls, handler_calls, files, cache_vars>>

\* load_file(bin_file) -> _load(bin_file=bin_file)
load_file(bin_file) ==
    IF row_data # None
    THEN /\ raised' = "AssertionError: Data already loaded"
         /\ UNCHANGED <<heap, row_data, caller_rows, shares_caller_list, called_aggregate,
                        called_add_basic_info, is_data_cache, files, call_vars, cache_vars>>
    ELSE IF bin_file \notin DOMAIN Binaries
    THEN /\ raised' = "FileNotFoundError"
         /\ UNCHANGED <<heap, row_data, caller_rows, shares_caller_list, called_aggregate,
                        called_add_basic_info, is_data_cache, files, call_vars, cache_vars>>
    ELSE /\ commands_run' = commands_run \cup {bloaty_cmd(bin_file), nm_cmd(bin_file)}
         /\ heap' = Binaries[bin_file]
         /\ row_data' = [i \in 1..Len(Binaries[bin_file]) |-> i]
         /\ shares_caller_list' = FALSE
         /\ raised' = ""
         /\ UNCHANGED <<caller_rows, called_aggregate, called_add_basic_info, is_data_cache,
                        use_map_file_calls, handler_calls, files, cache_vars>>

LoadFile == \E bin_file \in BinFiles : load_file(bin_file)

\* the heap with new objects under new references
allocate(h, new_refs, new_rows) ==
    [r \in DOMAIN h \cup Range(new_refs) |->
        IF r \in DOMAIN h THEN h[r]
        ELSE new_rows[CHOOSE k \in 1..Len(new_refs) : new_refs[k] = r]]

\* the heap once the objects of the list are as the rows given
written(h, refs, rows) ==
    [r \in DOMAIN h |->
        IF r \in Range(refs) THEN rows[CHOOSE i \in 1..Len(refs) : refs[i] = r]
        ELSE h[r]]

\* a turn that leaves a section without a '[section S]' row alone
add_info_section_with_umbrella(h, refs, map_symbol_sizes, order, section) ==
    LET decreased(appended, all_refs, added_size) ==
            [heap |-> written(appended, all_refs,
                              decrease_size_of_mysterious_section(
                                  rows_of(appended, all_refs), section, added_size)),
             rows |-> all_refs]
        append(added, new_refs) ==
            decreased(allocate(h, new_refs, added.rows), refs \o new_refs, added.added_size)
        added_as(added) == append(added, fresh_refs(DOMAIN h, Len(added.rows)))
    IN  IF mysterious_section_row(rows_of(h, refs), section) = 0
        THEN [heap |-> h, rows |-> refs]
        ELSE added_as(add_map_file_info(map_symbol_sizes, order, section))

\* one turn of the loop of add_info on the objects, the set of missing
\* symbols being iterated in the given order
add_info_section(h, refs, map_symbol_sizes, order, section) ==
    LET decreased(appended, all_refs, added_size) ==
            [heap |-> written(appended, all_refs,
                              decrease_size_of_mysterious_section(
                                  rows_of(appended, all_refs), section, added_size)),
             rows |-> all_refs]
        append(added, new_refs) ==
            decreased(allocate(h, new_refs, added.rows), refs \o new_refs, added.added_size)
        added_as(added) == append(added, fresh_refs(DOMAIN h, Len(added.rows)))
    IN  added_as(add_map_file_info(map_symbol_sizes, order, section))

\* MapFileIncluder.add_info: what the call may leave, one outcome for
\* each order in which the sets are iterated
RECURSIVE add_info(_, _, _, _)
add_info(h, refs, map_file, sections) ==
    IF Len(sections) = 0 THEN {[heap |-> h, rows |-> refs, raises |-> ""]}
    ELSE LET next(done) == add_info(done.heap, done.rows, map_file, Tail(sections))
             missed(sizes) ==
                 UNION {next(add_info_section(h, refs, sizes, order, sections[1])) :
                           order \in Orders(get_symbols_we_miss(rows_of(h, refs), sizes,
                                                                sections[1]))}
             read(map_symbol_sizes) ==
                 IF map_symbol_sizes.raises # ""
                 THEN {[heap |-> h, rows |-> refs, raises |-> map_symbol_sizes.raises]}
                 ELSE missed(map_symbol_sizes.value)
         IN  read(symbol_sizes_in(map_file, sections[1]))

\* use_map_file(map_file, sections), a map file being given by its lines;
\* the list is changed in place
use_map_file(map_file, sections) ==
    \/ no_data
    \/ /\ row_data # None
       /\ use_map_file_calls < MaxMapCalls
       /\ use_map_file_calls' = use_map_file_calls + 1
       /\ \E result \in add_info(heap, row_data, map_file, sections) :
              /\ heap' = result.heap
              /\ row_data' = result.rows
              /\ raised' = result.raises
       /\ caller_rows' = (IF shares_caller_list THEN row_data' ELSE caller_rows)
       /\ UNCHANGED <<shares_caller_list, called_aggregate, called_add_basic_info,
                      is_data_cache, commands_run, handler_calls, files, cache_vars>>

\* the sections a caller names
SectionLists == {<<".flash">>, <<".flash2", ".flash">>}

UseMapFile ==
    \E map_file \in MapFiles, sections \in SectionLists : use_map_file(map_file, sections)

\* the conditions a caller passes
Conditions == {"None", "'protobuf' in symbol_name", "size > 2"}

call_condition(condition, row) ==
    CASE condition = "'protobuf' in symbol_name" -> Contains(row.symbol_name, "protobuf")
      [] condition = "size > 2" -> row.size > 2

\* a step that takes every condition as None
_include_definitions_all(condition, cache, definitions, fs, row) ==
    CommonRow_add_definition(row_handler_factory(row), cache, definitions, fs, row)

\* _include_definitions of add_definitions
_include_definitions(condition, cache, definitions, fs, row) ==
    IF condition # "None" /\ call_condition(condition, row) = FALSE
    THEN Handled(row, "", cache, definitions)
    ELSE CommonRow_add_definition(row_handler_factory(row), cache, definitions, fs, row)

\* the list comprehension of add_definitions, row by row
RECURSIVE add_definitions_rows(_, _, _, _, _, _)
add_definitions_rows(h, cache, definitions, fs, refs, condition) ==
    IF Len(refs) = 0
    THEN [heap |-> h, cache |-> cache, symbol_definitions |-> definitions, raises |-> ""]
    ELSE LET next(h2, result) ==
                 IF result.raises # ""
                 THEN [heap |-> h2, cache |-> result.cache,
                       symbol_definitions |-> result.symbol_definitions,
                       raises |-> result.raises]
                 ELSE add_definitions_rows(h2, result.cache, result.symbol_definitions,
                                           fs, Tail(refs), condition)
             handled(result) == next([h EXCEPT ![refs[1]] = result.row], result)
         IN  handled(_include_definitions(condition, cache, definitions, fs, h[refs[1]]))

add_definitions(condition) ==
    \/ no_data
    \/ /\ row_data # None
       /\ UNCHANGED <<row_data, caller_rows, called_aggregate, called_add_basic_info, files,
                      call_vars, cache_file_path, cache_file, returned>>
       /\ LET ends(result) ==
                  /\ heap' = result.heap
                  /\ is_data_cache' = result.cache
                  /\ symbol_definitions' = result.symbol_definitions
                  /\ raised' = result.raises
                  /\ shares_caller_list' = (IF result.raises = "" THEN FALSE
                                            ELSE shares_caller_list)
          IN  ends(add_definitions_rows(heap, is_data_cache, symbol_definitions, files,
                                        row_data, condition))

AddDefinitions == \E condition \in Conditions : add_definitions(condition)

\* a run that includes map files
NextMap ==
    \/ LoadFile
    \/ LoadRows
    \/ UseMapFile
    \/ aggregate
    \/ add_basic_info

SpecMap == InitPipeline /\ [][NextMap]_vars

\* a run that adds definitions
NextDefinitions ==
    \/ LoadFile
    \/ LoadRows
    \/ aggregate
    \/ add_basic_info
    \/ AddDefinitions
    \/ Sort
    \/ Filter

SpecDefinitions == InitPipeline /\ [][NextDefinitions]_vars

(***************************************************************************)
(* BinarySize with all of its operations: the three loads, the processing  *)
(* operations and the operations that give the data out.                   *)
(***************************************************************************)
\* str() of an int
repr_int(n) == IF n < 0 THEN "-" \o str(0 - n) ELSE str(n)

\* repr() of a DataRow, as @dataclass generates it
repr_row(row) ==
    "DataRow(symbol_name=" \o repr(row.symbol_name)
    \o ", section=" \o repr(row.section)
    \o ", size=" \o repr_int(row.size)
    \o ", language=" \o repr(row.language)
    \o ", func_name=" \o repr(row.func_name)
    \o ", module_name=" \o repr(row.module_name)
    \o ", logic_size=" \o repr_int(row.logic_size)
    \o ", data_size=" \o repr_int(row.data_size)
    \o ", build_definition=" \o repr(row.build_definition)
    \o ", number_of_symbols=" \o repr_int(row.number_of_symbols)
    \o ", source_definition=" \o repr(row.source_definition) \o ")"

\* repr() of a list of DataRow
repr_rows(rows) == "[" \o Join([i \in 1..Len(rows) |-> repr_row(rows[i])], ", ") \o "]"

BLOATY_HEADER == "sections,symbols,vmsize,filesize"

\* the csv outputs a caller passes to load_csv
CsvOutputs ==
    {"",
     BLOATY_HEADER \o "\n",
     BLOATY_HEADER \o "\n.flash,aaa,2,2\n.flash,bbb,2,2\n",
     BLOATY_HEADER \o "\n.flash,aaa,2,x\n",
     BLOATY_HEADER \o "\n.flash,aaa\n",
     "sections,symbols\n.flash,aaa\n"}

\* _get_data_row_from_bloaty_row on a row of csv.DictReader: a column the
\* header misses raises KeyError, a field the line misses is None
_get_data_row_from_bloaty_row(fieldnames, fields) ==
    LET column(name) == IF \E i \in 1..Len(fieldnames) : fieldnames[i] = name
                        THEN Min({i \in 1..Len(fieldnames) : fieldnames[i] = name})
                        ELSE 0
        field(name)  == IF column(name) > Len(fields) THEN repr_None
                        ELSE fields[column(name)]
    IN  IF column("symbols") = 0 \/ column("sections") = 0 \/ column("filesize") = 0
        THEN Raises("KeyError")
        ELSE IF column("filesize") > Len(fields) THEN Raises("TypeError")
        ELSE IF ~AllDigits(field("filesize")) THEN Raises("ValueError")
        ELSE Returns(DataRow(field("symbols"), field("sections"),
                             ParseInt(field("filesize")), ""))

RECURSIVE _get_row_data(_, _)
_get_row_data(fieldnames, bloaty_rows) ==
    IF Len(bloaty_rows) = 0 THEN Returns(<<>>)
    ELSE LET first == _get_data_row_from_bloaty_row(fieldnames, bloaty_rows[1])
             rest  == _get_row_data(fieldnames, Tail(bloaty_rows))
         IN  IF first.raises # "" THEN first
             ELSE IF rest.raises # "" THEN rest
             ELSE Returns(<<first.value>> \o rest.value)

\* BloatyDataLoader.load_data_from_csv(csv_output, None): the first line
\* names the columns, empty lines are skipped
load_data_from_csv(csv_output) ==
    LET not_empty(line) == line # ""
        lines == SelectSeq(Split(csv_output, "\n"), not_empty)
        split_line(i) == Split(lines[i + 1], ",")
    IN  IF Len(lines) = 0 THEN Returns(<<>>)
        ELSE _get_row_data(Split(lines[1], ","), [i \in 1..(Len(lines) - 1) |-> split_line(i)])

\* a load that does not look at the data already loaded
load_csv_reloading(csv_output) ==
    LET loaded == load_data_from_csv(csv_output)
    IN  IF csv_output = ""
        THEN /\ raised' = "AssertionError: only one load option can be specified"
             /\ UNCHANGED <<heap, row_data, caller_rows, shares_caller_list, called_aggregate,
                            called_add_basic_info, is_data_cache, files, call_vars, cache_vars>>
        ELSE IF loaded.raises # ""
        THEN /\ raised' = loaded.raises
             /\ UNCHANGED <<heap, row_data, caller_rows, shares_caller_list, called_aggregate,
                            called_add_basic_info, is_data_cache, files, call_vars, cache_vars>>
        ELSE /\ heap' = loaded.value
             /\ row_data' = [i \in 1..Len(loaded.value) |-> i]
             /\ shares_caller_list' = FALSE
             /\ raised' = ""
             /\ UNCHANGED <<caller_rows, called_aggregate, called_add_basic_info,
                            is_data_cache, files, call_vars, cache_vars>>

\* load_csv(csv_output) -> _load(csv_output=csv_output)
load_csv(csv_output) ==
    LET loaded == load_data_from_csv(csv_output)
    IN  IF row_data # None
        THEN /\ raised' = "AssertionError: Data already loaded"
             /\ UNCHANGED <<heap, row_data, caller_rows, shares_caller_list, called_aggregate,
                            called_add_basic_info, is_data_cache, files, call_vars, cache_vars>>
        ELSE IF csv_output = ""
        THEN /\ raised' = "AssertionError: only one load option can be specified"
             /\ UNCHANGED <<heap, row_data, caller_rows, shares_caller_list, called_aggregate,
                            called_add_basic_info, is_data_cache, files, call_vars, cache_vars>>
        ELSE IF loaded.raises # ""
        THEN /\ raised' = loaded.raises
             /\ UNCHANGED <<heap, row_data, caller_rows, shares_caller_list, called_aggregate,
                            called_add_basic_info, is_data_cache, files, call_vars, cache_vars>>
        ELSE /\ heap' = loaded.value
             /\ row_data' = [i \in 1..Len(loaded.value) |-> i]
             /\ shares_caller_list' = FALSE
             /\ raised' = ""
             /\ UNCHANGED <<caller_rows, called_aggregate, called_add_basic_info,
                            is_data_cache, files, call_vars, cache_vars>>

LoadCsv == \E csv_output \in CsvOutputs : load_csv(csv_output)

\* an operation that gives data out: it returns a value and changes nothing
gives(value) ==
    \/ no_data
    \/ /\ row_data # None
       /\ raised' = ""
       /\ returned' = value
       /\ UNCHANGED <<pipeline_vars, files, symbol_definitions, cache_file_path, cache_file>>

\* get(): the list row_data itself
BinarySize_get == gives(repr_rows(rows_of(heap, row_data)))

get_size ==
    gives(repr_int(SumSeq([i \in 1..Len(row_data) |-> heap[row_data[i]].size])))

get_len == gives(repr_int(Len(row_data)))

\* show(): the report is printed, nothing is returned
show == gives(repr_None)

\* the calls of a session: one list, one condition, one filter, and once
\* data are loaded the processing operations in the order the warnings of
\* add_definitions and use_map_file recommend: the map file first, then
\* add_basic_info, then aggregate, then the rest
LoadList ==
    \E rows \in {<<>>, <<DataRow("aaa", ".flash", 2, ""), DataRow("bbb", ".flash", 2, "")>>} :
        load_data(rows)

before_basic_info == row_data = None \/ (~called_aggregate /\ ~called_add_basic_info)

before_aggregate == row_data = None \/ ~called_aggregate

after_basic_info == row_data = None \/ called_add_basic_info

after_aggregate == row_data = None \/ called_aggregate

NextLoad ==
    \/ LoadFile
    \/ LoadList
    \/ LoadCsv
    \/ (before_basic_info /\ use_map_file(MapFileV1, <<".flash">>))
    \/ (before_aggregate /\ add_basic_info)
    \/ (after_basic_info /\ aggregate)
    \/ (after_aggregate /\ add_definitions("size > 2"))
    \/ (after_aggregate /\ sort(TRUE))
    \/ (after_aggregate /\ filter("size > 2"))
    \/ BinarySize_get
    \/ get_size
    \/ get_len
    \/ show

SpecLoad == InitPipeline /\ [][NextLoad]_vars

(***************************************************************************)
(* The map file in a pipeline: a binary whose symbols aggregate folds, and *)
(* use_map_file before or after add_basic_info and aggregate.              *)
(***************************************************************************)
\* the profiler reports a symbol and a string constant of the same function
FoldedRows ==
    {<<DataRow("[section .flash]", ".flash", 9, ""),
       DataRow("aaa", ".flash", 2, ""),
       DataRow("bbb", ".flash", 2, ""),
       DataRow("bbb.str1.1", ".flash", 2, "")>>,
     <<DataRow("[section .flash]", ".flash", 9, ""),
       DataRow("aaa", ".flash", 2, ""),
       DataRow("zzz", ".flash", 3, ""),
       DataRow("[section .flash2]", ".flash2", 6, ""),
       DataRow("eee.constprop.0", ".flash2", 1, "")>>,
     <<DataRow("aaa", ".flash", 2, ""),
       DataRow("aaa.str1.1", ".flash", 1, "")>>}

LoadFolded ==
    \E rows \in IF row_data = None THEN FoldedRows
                ELSE {<<DataRow("aaa", ".flash", 2, "")>>} :
        load_data(rows)

NextOrder ==
    \/ LoadFolded
    \/ add_basic_info
    \/ aggregate
    \/ UseMapFile

SpecOrder == InitPipeline /\ [][NextOrder]_vars

(***************************************************************************)
(* A row handler on its own: one row is given to the handler the factory   *)
(* chooses for it, and its add_basic_info, add_definition and              *)
(* _get_definition_cached are called while source files are edited.        *)
(***************************************************************************)
CFileV3 == <<"void bar(void) {", "}", "void foo(const int x) {", "}">>

\* the rows given to the handlers
ResolveRows ==
    {DataRow("foo", ".flash", 1, ""),
     DataRow("foo", ".flash", 1, "embed/a.c:2"),
     DataRow("bar", ".flash", 1, ""),
     DataRow("[section .flash]", ".flash", 5, "embed/a.c:1"),
     DataRow(".bootloader", ".flash", 2, "embed/a.c:2"),
     DataRow("", ".flash", 1, "embed/a.c:2"),
     DataRow("trezor_lib::protobuf::decode::Decoder::decode_field::h0123456789abcdef",
             ".flash", 8, ""),
     DataRow("fun_data_apps_base_get_features_1", ".flash2", 16,
             "build/firmware/frozen_mpy.c:7")}

\* the edits of the source tree during the calls
ResolveEdits ==
    {<<"embed/a.c", CFileV1>>, <<"embed/a.c", CFileV2>>, <<"embed/a.c", CFileV3>>,
     <<"embed/a.c", Missing>>,
     <<"embed/rust/src/protobuf/decode.rs", RustFileV1>>,
     <<"embed/rust/src/protobuf/decode.rs", RustFileV2>>}

\* one row, and a cache constructed with no file
InitResolve ==
    /\ heap \in {<<row>> : row \in ResolveRows}
    /\ row_data = None
    /\ caller_rows = <<>>
    /\ shares_caller_list = FALSE
    /\ called_aggregate = FALSE
    /\ called_add_basic_info = FALSE
    /\ is_data_cache = EmptyDict
    /\ use_map_file_calls = 0
    /\ commands_run = {}
    /\ handler_calls = <<>>
    /\ files = SourceTree
    /\ raised = ""
    /\ symbol_definitions = JsonDict(EmptyDict)
    /\ cache_file_path = repr_None
    /\ cache_file = NoFile
    /\ returned = ""

resolve_frame == <<row_data, caller_rows, shares_caller_list, called_aggregate,
                   called_add_basic_info, use_map_file_calls, commands_run, files,
                   cache_file_path, cache_file>>

\* handler._get_definition_cached(row) on the row of the run.  The locators
\* are modelled for the rows add_definition passes on: add_basic_info has
\* given them their names and they are no section marker or unnamed blob.
call_get_definition_cached ==
    /\ heap[1].language # ""
    /\ ~StartsWithAny(heap[1].symbol_name, <<"[", ".", "str1">>)
    /\ heap[1].symbol_name # ""
    /\ LET ends(definition) ==
               /\ symbol_definitions' = definition.symbol_definitions
               /\ raised' = definition.result.raises
               /\ returned' = (IF definition.result.raises = ""
                               THEN repr(definition.result.value) ELSE "")
               /\ handler_calls' = definition.calls
       IN  ends(_get_definition_cached(row_handler_factory(heap[1]), symbol_definitions,
                                       files, heap[1]))
    /\ UNCHANGED <<heap, is_data_cache, resolve_frame>>

\* handler.add_definition(row) on the row of the run
call_add_definition ==
    /\ LET ends(handled) ==
               /\ heap' = <<handled.row>>
               /\ is_data_cache' = handled.cache
               /\ symbol_definitions' = handled.symbol_definitions
               /\ raised' = handled.raises
               /\ handler_calls' = handled.calls
       IN  ends(CommonRow_add_definition(row_handler_factory(heap[1]), is_data_cache,
                                         symbol_definitions, files, heap[1]))
    /\ returned' = ""
    /\ UNCHANGED resolve_frame

\* handler.add_basic_info(row) on the row of the run
call_add_basic_info ==
    /\ LET ends(handled) ==
               /\ heap' = <<handled.row>>
               /\ is_data_cache' = handled.cache
               /\ raised' = handled.raises
       IN  ends(CommonRow_add_basic_info(row_handler_factory(heap[1]), is_data_cache,
                                         files, heap[1]))
    /\ returned' = ""
    /\ handler_calls' = <<>>
    /\ UNCHANGED <<symbol_definitions, resolve_frame>>

ResolveEdit == \E edit \in ResolveEdits : edit_file(edit[1], edit[2])

NextResolve ==
    \/ call_get_definition_cached
    \/ call_add_definition
    \/ call_add_basic_info
    \/ ResolveEdit

SpecResolve == InitResolve /\ [][NextResolve]_vars

(***************************************************************************)
(* The micropython resolvers on their own: resolve_module on a flattened   *)
(* module name, and ObjectDefinition.resolve_symbol on the index of a      *)
(* module, over source trees that hold any of a few python files.          *)
(***************************************************************************)
MODULE_FILE == "src/a/m.py"

ModulePaths ==
    {"src/a/tt/x.py", "src/a/tt_v2/x.py", "src/a/tt/__init__.py",
     "src/a/tt_v2/__init__.py", "src/a/b_c.py", MODULE_FILE}

ModuleContents == {PyFileV1, PyFileV3}

ModuleTrees ==
    {[path \in present |-> IF path = MODULE_FILE THEN content ELSE PyFileV2] :
        present \in SUBSET ModulePaths, content \in ModuleContents}

ModuleNames == {flattened(path) : path \in ModulePaths} \cup {"a_unexisting", "a_tt_v2_unexisting"}

ModuleSymbolNames ==
    {"get_features", "get_features_inner", "get_meth", "get_meth_x", "get", "f",
     "f_decorator_wrapper", "Cls_meth", "Cls", "meth", "zzz", ""}

InitModule ==
    /\ heap \in {<<DataRow(symbol_name, ".flash", 4, "")>> :
                    symbol_name \in ModuleNames \cup ModuleSymbolNames}
    /\ row_data = None
    /\ caller_rows = <<>>
    /\ shares_caller_list = FALSE
    /\ called_aggregate = FALSE
    /\ called_add_basic_info = FALSE
    /\ is_data_cache = EmptyDict
    /\ use_map_file_calls = 0
    /\ commands_run = {}
    /\ handler_calls = <<>>
    /\ files \in ModuleTrees
    /\ raised = ""
    /\ symbol_definitions = Unconstructed
    /\ cache_file_path = repr_None
    /\ cache_file = NoFile
    /\ returned = ""

\* repr() of a tuple of a str and a bool
repr_str_bool(pair) == "(" \o repr(pair[1]) \o ", " \o (IF pair[2] THEN "True" ELSE "False") \o ")"

\* resolve_module(module_name)
call_resolve_module ==
    /\ returned = "" /\ raised = ""
    /\ heap[1].symbol_name \in ModuleNames
    /\ returns(Returns(resolve_module(files, heap[1].symbol_name)), repr_str_bool)

\* get_module_object_definitions(MODULE_FILE).resolve_symbol(symbol_name)
call_resolve_symbol ==
    /\ returned = "" /\ raised = ""
    /\ heap[1].symbol_name \in ModuleSymbolNames
    /\ is_file(files, MODULE_FILE)
    /\ returns(Returns(resolve_symbol(get_module_object_definitions(files, MODULE_FILE).value,
                                      heap[1].symbol_name)), repr)

NextModule ==
    \/ call_resolve_module
    \/ call_resolve_symbol

SpecModule == InitModule /\ [][NextModule]_vars

(***************************************************************************)
(* DataRow.id() on its own: two rows of one section, with any of a few     *)
(* names, and the ids of both.                                             *)
(***************************************************************************)
IdModuleNames == {"", "src/apps/base.py", "foo", "embed/a.rs::Decoder"}

IdFuncNames == {"", "foo", "embed/a.rs::Decoder::decode()", "Decoder::decode()", "decode()"}

IdSymbolNames == {"foo", "foo.str1.1"}

IdRows ==
    {[DataRow(symbol_name, ".flash", 2, "") EXCEPT
          !.module_name = module_name, !.func_name = func_name] :
        symbol_name \in IdSymbolNames, module_name \in IdModuleNames, func_name \in IdFuncNames}

InitId ==
    /\ heap \in {<<first, second>> : first \in IdRows, second \in IdRows}
    /\ row_data = None
    /\ caller_rows = <<>>
    /\ shares_caller_list = FALSE
    /\ called_aggregate = FALSE
    /\ called_add_basic_info = FALSE
    /\ is_data_cache = EmptyDict
    /\ use_map_file_calls = 0
    /\ commands_run = {}
    /\ handler_calls = <<>>
    /\ files = SourceTree
    /\ raised = ""
    /\ symbol_definitions = Unconstructed
    /\ cache_file_path = repr_None
    /\ cache_file = NoFile
    /\ returned = ""

\* (first.id(), second.id())
call_id ==
    /\ returned = "" /\ raised = ""
    /\ returns(Returns(<<id(heap[1]), id(heap[2])>>), repr_tuple)

\* len(aggregate_rows([first, second]))
call_aggregate_rows ==
    /\ returned = "" /\ raised = ""
    /\ returns(Returns(Len(aggregate_rows(<<heap[1], heap[2]>>))), repr_int)

NextId ==
    \/ call_id
    \/ call_aggregate_rows

SpecId == InitId /\ [][NextId]_vars

(***************************************************************************)
\* the rows of row_data, as values
Rows == IF row_data = None THEN <<>> ELSE rows_of(heap, row_data)

RECURSIVE SumOver(_, _, _)
SumOver(rows, idx, field) ==
    IF idx = {} THEN 0
    ELSE LET i == CHOOSE j \in idx : TRUE
         IN  rows[i][field] + SumOver(rows, idx \ {i}, field)

Total(rows, field) == SumOver(rows, DOMAIN rows, field)

\* C1: whenever add_basic_info() returns, every row of row_data has
\* logic_size + data_size = size, whatever calls came before.
C1_SplitAfterBasicInfo ==
    [][(add_basic_info /\ row_data # None /\ raised' = "")
        => \A i \in 1..Len(row_data') :
              LET row == heap'[row_data'[i]]
              IN  row.logic_size + row.data_size = row.size]_vars

\* the group of an id in the input of aggregate_rows
Group(rows, key) == {i \in 1..Len(rows) : id(rows[i]) = key}

OtherFields ==
    {"symbol_name", "section", "language", "func_name", "module_name", "build_definition",
     "source_definition"}

\* what aggregate_rows is to return for the input rows `rows`
IsAggregateOf(out, rows) ==
    /\ {id(out[k]) : k \in 1..Len(out)} = {id(rows[i]) : i \in 1..Len(rows)}
    /\ \A k, l \in 1..Len(out) :
          k < l => Min(Group(rows, id(out[k]))) < Min(Group(rows, id(out[l])))
    /\ \A k \in 1..Len(out) :
          LET group == Group(rows, id(out[k]))
              first == rows[Min(group)]
          IN  /\ out[k].size = SumOver(rows, group, "size")
              /\ out[k].logic_size = SumOver(rows, group, "logic_size")
              /\ out[k].data_size = SumOver(rows, group, "data_size")
              /\ out[k].number_of_symbols = Cardinality(group)
              /\ \A field \in OtherFields : out[k][field] = first[field]

\* C2: aggregate emits one new row per id, in the order in which the ids
\* first appear, with the sizes summed, the group counted and the other
\* fields taken from the first row of the group; the input rows stay as
\* they are.
C2_OneRowPerId ==
    [][(aggregate /\ row_data # None)
        => /\ IsAggregateOf(rows_of(heap', row_data'), rows_of(heap, row_data))
           /\ Range(row_data') \cap DOMAIN heap = {}
           /\ \A r \in DOMAIN heap \cap DOMAIN heap' : heap'[r] = heap[r]]_vars

C2_Witness ==
    /\ called_aggregate
    /\ Len(Rows) >= 2
    /\ Rows[1].number_of_symbols = 1
    /\ Rows[2].number_of_symbols = 2
    /\ caller_rows # row_data

\* C3: aggregate keeps the totals of size, logic_size and data_size.
C3_TotalsKept ==
    [][(aggregate /\ row_data # None)
        => \A field \in {"size", "logic_size", "data_size"} :
              Total(rows_of(heap', row_data'), field) = Total(rows_of(heap, row_data), field)]_vars

C3_Witness ==
    /\ called_aggregate
    /\ \E i \in 1..Len(Rows) :
          /\ Rows[i].number_of_symbols >= 2
          /\ Rows[i].logic_size > 0
          /\ Rows[i].data_size > 0
          /\ Rows[i].size = Rows[i].logic_size + Rows[i].data_size

\* C4: aggregating the result of an aggregation returns the same rows,
\* number_of_symbols included.
C4_AggregateIdempotent ==
    aggregate_rows(aggregate_rows(Rows)) = aggregate_rows(Rows)

\* the lists with the members of `rows`, in every order
Reorderings(rows) ==
    {[i \in 1..Len(rows) |-> rows[p[i]]] :
        p \in {q \in [1..Len(rows) -> 1..Len(rows)] : Range(q) = 1..Len(rows)}}

\* C5: however the input is ordered, aggregate_rows returns the same set of rows.
C5_OrderIndependent ==
    \A permuted \in Reorderings(Rows) :
        Range(aggregate_rows(permuted)) = Range(aggregate_rows(Rows))

\* C6: rows of different sections have different ids.
C6_SectionInId ==
    \A i, j \in 1..Len(Rows) :
        Rows[i].section # Rows[j].section => id(Rows[i]) # id(Rows[j])

\* a symbol with an entry of the expected shape
IsCached(defs, symbol) ==
    /\ defs.kind = "dict"
    /\ symbol \in DOMAIN defs.items
    /\ defs.items[symbol].kind = "dict"

\* C7: a cache built without persisted definitions returns None for every
\* symbol; after add(symbol, definition), get(symbol) returns the definition,
\* the empty one too, whatever the symbol had before, and returns for the
\* other symbols what it returned before; within a run, what get returns
\* for a symbol changes with an add of that symbol only.
C7_GetReturnsLastAdded ==
    /\ [][\A path \in {repr_None, DEFINITIONS_CACHE_FILE} :
            (__init__(path) /\ (path = repr_None \/ cache_file = NoFile))
            => \A symbol \in CacheSymbols :
                  get(symbol_definitions', symbol) = Returns(repr_None)]_vars
    /\ [][\A symbol \in CacheSymbols, definition \in CacheDefinitions :
            (call_add(symbol, definition) /\ raised' = "")
            => /\ get(symbol_definitions', symbol) = Returns(repr(definition))
               /\ \A other \in CacheSymbols \ {symbol} :
                     get(symbol_definitions', other) = get(symbol_definitions, other)]_vars
    /\ [][(constructed /\ constructed')
            => \A symbol \in CacheSymbols :
                  get(symbol_definitions', symbol) # get(symbol_definitions, symbol)
                  => \E definition \in CacheDefinitions : call_add(symbol, definition)]_vars

\* both symbols are cached, one with the empty definition, and get has just
\* returned the definition of the other
C7_Witness ==
    /\ IsCached(symbol_definitions, "foo")
    /\ IsCached(symbol_definitions, "array_foo")
    /\ symbol_definitions.items["foo"].definition = "src/apps/base.py:1"
    /\ symbol_definitions.items["array_foo"].definition = ""
    /\ returned = repr("src/apps/base.py:1")

\* the definition points into the file at `path`
LocatedIn(definition, path) == definition = path \/ StartsWith(definition, path \o ":")

\* the fingerprint of the file at `path` as it is now
Fingerprint(fs, path) == IF fs[path] = Missing THEN "" ELSE md5_hexdigest(fs[path])

\* C8: is_invalidated(symbol) is True exactly for a symbol cached with a
\* non-empty definition whose file has now another fingerprint than the
\* stored one.  It is False right after add; an edit of a file invalidates
\* the valid symbols located in that file and leaves the others as they
\* were; symbols not cached or cached with the empty definition are never
\* invalidated; the call changes neither the cache nor the files.
C8_InvalidatedIffFileChanged ==
    /\ [](\A symbol \in CacheSymbols :
            symbol_definitions.kind = "dict" /\ symbol \notin DOMAIN symbol_definitions.items
            => is_invalidated(symbol_definitions, files, symbol) = Returns(FALSE))
    /\ [](\A symbol \in CacheSymbols, path \in DOMAIN files :
            IsCached(symbol_definitions, symbol)
            => LET entry == symbol_definitions.items[symbol]
               IN  /\ entry.definition = ""
                      => is_invalidated(symbol_definitions, files, symbol) = Returns(FALSE)
                   /\ LocatedIn(entry.definition, path)
                      => is_invalidated(symbol_definitions, files, symbol)
                            = Returns(Fingerprint(files, path) # entry.file_hash))
    /\ [][\A symbol \in CacheSymbols, definition \in CacheDefinitions :
            (call_add(symbol, definition) /\ raised' = "")
            => is_invalidated(symbol_definitions', files', symbol) = Returns(FALSE)]_vars
    /\ [][\A edit \in Edits :
            edit_file(edit[1], edit[2])
            => \A symbol \in CacheSymbols :
                  (IsCached(symbol_definitions, symbol)
                      /\ symbol_definitions.items[symbol].definition # "")
                  => IF LocatedIn(symbol_definitions.items[symbol].definition, edit[1])
                     THEN is_invalidated(symbol_definitions, files, symbol) = Returns(FALSE)
                          => is_invalidated(symbol_definitions', files', symbol) = Returns(TRUE)
                     ELSE is_invalidated(symbol_definitions', files', symbol)
                             = is_invalidated(symbol_definitions, files, symbol)]_vars
    /\ [][\A symbol \in CacheSymbols :
            call_is_invalidated(symbol)
            => /\ symbol_definitions' = symbol_definitions
               /\ cache_file' = cache_file
               /\ files' = files]_vars

\* is_invalidated has just returned True; both symbols located in the edited
\* file are invalidated
C8_Witness ==
    /\ returned = repr_bool(TRUE)
    /\ IsCached(symbol_definitions, "foo")
    /\ IsCached(symbol_definitions, "array_foo")
    /\ symbol_definitions.items["foo"].definition = "embed/a.c:1"
    /\ symbol_definitions.items["array_foo"].definition = "embed/a.c:1"
    /\ symbol_definitions.items["foo"].file_hash # symbol_definitions.items["array_foo"].file_hash
    /\ is_invalidated(symbol_definitions, files, "foo") = Returns(TRUE)
    /\ is_invalidated(symbol_definitions, files, "array_foo") = Returns(TRUE)

\* C9: a cache constructed on a cache file that is missing, is no JSON or
\* is JSON of another shape is the empty cache; neither the construction
\* nor a later call raises.
C9_CorruptCacheIsEmptyCache ==
    /\ [][(__init__(DEFINITIONS_CACHE_FILE) /\ cache_file \in CacheFiles)
            => /\ raised' = ""
               /\ symbol_definitions' = JsonDict(EmptyDict)]_vars
    /\ [](cache_file \in CacheFiles => raised = "")

\* C10: the factory returns RustRow for a Rust prefix or a build definition
\* below /cargo/, a MicroPython prefix or not; else MicropythonRow for a
\* MicroPython prefix; else CRow.
C10_HandlerInOrder ==
    returned # ""
    => LET row  == heap[1]
           rust == \/ \E prefix \in {"trezor_lib", "compiler_builtins", "core::", "_$LT$",
                                    "heapless::", "cstr_core::", "_ZN", "unlikely._ZN"} :
                         StartsWith(row.symbol_name, prefix)
                   \/ StartsWith(row.build_definition, "/cargo/")
           mpy  == \E prefix \in {"fun_data_", "const_table_data_", "const_obj_", "raw_code_"} :
                      StartsWith(row.symbol_name, prefix)
       IN  /\ rust => returned = "RustRow"
           /\ (~rust /\ mpy) => returned = "MicropythonRow"
           /\ (~rust /\ ~mpy) => returned = "CRow"

\* the factory has returned RustRow for a symbol with a MicroPython prefix
C10_Witness ==
    /\ returned = "RustRow"
    /\ StartsWith(heap[1].symbol_name, "const_obj_")
    /\ StartsWith(heap[1].build_definition, "/cargo/")

\* C11: for a symbol made of a MicroPython prefix, the flattened path of an
\* existing source file, the marker __lt_module_gt__ and the name of a
\* top-level function of that file, _get_module_and_function returns the path
\* of the file and the function name followed by ().
C11_MarkedFunctionResolved ==
    [][\A i \in 1..Len(MPY_PREFIXES) : \A path \in PythonFiles(files) :
         \A name \in TopLevelFunctions(files, path) :
            (/\ call_get_module_and_function
             /\ heap[1].symbol_name = MarkedSymbol(MPY_PREFIXES[i], path, name))
            => /\ raised' = ""
               /\ returned' = repr_tuple(<<path, name \o "()">>)]_vars

\* the type a reference type refers to
Referent(type) ==
    IF StartsWith(type, "&mut ") THEN DropFirst(type, 5)
    ELSE IF StartsWith(type, "&") THEN DropFirst(type, 1)
    ELSE type

RustCounterpart(rows, m) ==
    /\ StartsWith(m, "_ZN")
    /\ EndsWith(m, "E")
    /\ \E i \in 1..Len(rows) : EndsWith(rows[i].symbol_name, LastChars(DropLast(m, 1), 9))

\* C13: get_symbols_we_miss(rows, map_sizes, S) returns exactly the map
\* symbols that are neither the symbol_name of a row of section S nor the
\* Rust counterpart of an existing symbol, and changes no row.
C13_MissingSymbols ==
    [][\A map_sizes \in MapSymbolSizes \cup {ExampleSymbolSizes}, S \in Sections :
          call_get_symbols_we_miss(map_sizes, S) =>
              LET rows == rows_of(heap, caller_rows)
              IN  /\ raised' = ""
                  /\ heap' = heap
                  /\ returned' \in
                        {repr_set(order) : order \in Orders(
                            {m \in DOMAIN map_sizes :
                                /\ ~\E i \in 1..Len(rows) :
                                       rows[i].section = S /\ rows[i].symbol_name = m
                                /\ ~RustCounterpart(rows, m)})}]_vars

\* rows {aaa, bbb} and map {aaa, bbb.suffix, zzz} gave {bbb.suffix, zzz}
C13_Witness ==
    /\ {heap[r].symbol_name : r \in DOMAIN heap} = {"aaa", "bbb"}
    /\ returned \in {"{'bbb.suffix', 'zzz'}", "{'zzz', 'bbb.suffix'}"}

\* the rows a call of use_map_file has appended for a section
Appended(S) ==
    {i \in (Len(row_data) + 1)..Len(row_data') : heap'[row_data'[i]].section = S}

\* the first row named '[section S]' before the call, 0 if there is none
Umbrella(S) ==
    LET named == {i \in 1..Len(row_data) :
                     heap[row_data[i]].symbol_name = "[section " \o S \o "]"}
    IN  IF named = {} THEN 0 ELSE CHOOSE i \in named : \A j \in named : i <= j

\* the sum of size over the rows of section S in a list of objects
SectionSize(h, refs, S) ==
    SumOver(rows_of(h, refs), {i \in 1..Len(refs) : h[refs[i]].section = S}, "size")

\* C14: when a row named '[section S]' exists, add_info for section S
\* appends rows whose sizes sum to A and decreases the size of the first
\* '[section S]' row by exactly A, changing no other existing row, so the
\* sum of size over the rows of section S is the same before and after.
C14_UmbrellaShrinksByAdded ==
    [][\A map_file \in MapFiles, sections \in SectionLists :
          (use_map_file(map_file, sections) /\ row_data # None /\ raised' = "")
          => /\ SubSeq(row_data', 1, Len(row_data)) = row_data
             /\ \A S \in Range(sections) :
                    Umbrella(S) # 0 =>
                        /\ heap'[row_data[Umbrella(S)]] =
                               [heap[row_data[Umbrella(S)]] EXCEPT !.size =
                                   @ - SumOver(rows_of(heap', row_data'), Appended(S), "size")]
                        /\ SectionSize(heap', row_data', S) = SectionSize(heap, row_data, S)
             /\ \A i \in 1..Len(row_data) :
                    (\A S \in Range(sections) : i # Umbrella(S))
                        => heap'[row_data[i]] = heap[row_data[i]]]_vars

\* a call has appended rows of a section and shrunk its umbrella row,
\* which is not the first row of the section
C14_Witness ==
    /\ use_map_file_calls = 1
    /\ raised = ""
    /\ row_data # None
    /\ \E u, i, j \in 1..Len(Rows) :
           /\ i < u /\ u < j
           /\ Rows[i].section = ".flash"
           /\ Rows[u] = DataRow("[section .flash]", ".flash", 4, "")
           /\ Rows[j] = DataRow("zzz", ".flash", 3, "")

\* the map file has a line that opens the section
InMapFile(map_file, S) == \E i \in 1..Len(map_file) : StartsWith(map_file[i], S \o " ")

\* the map symbols a list of rows misses for section S
Missed(rows, map_sizes, S) ==
    {m \in DOMAIN map_sizes :
        /\ ~\E i \in 1..Len(rows) : rows[i].section = S /\ rows[i].symbol_name = m
        /\ ~RustCounterpart(rows, m)}

\* C15: when no row named '[section S]' exists, add_info for section S
\* raises no error: the missing symbols are still appended as new rows, no
\* existing row is modified, and processing continues with the remaining
\* sections (the sections being sections of the map file).
C15_NoUmbrellaNoError ==
    [][\A map_file \in MapFiles, sections \in SectionLists :
          (/\ use_map_file(map_file, sections)
           /\ row_data # None
           /\ \A S \in Range(sections) : InMapFile(map_file, S)
           /\ \E S \in Range(sections) : Umbrella(S) = 0)
          => /\ raised' = ""
             /\ SubSeq(row_data', 1, Len(row_data)) = row_data
             /\ \A S \in Range(sections) :
                    /\ {heap'[row_data'[i]] : i \in Appended(S)} =
                           {DataRow(m, S, symbol_sizes_in(map_file, S).value[m], "") :
                               m \in Missed(rows_of(heap, row_data),
                                            symbol_sizes_in(map_file, S).value, S)}
                    /\ Cardinality(Appended(S)) =
                           Cardinality(Missed(rows_of(heap, row_data),
                                              symbol_sizes_in(map_file, S).value, S))
             /\ \A i \in 1..Len(row_data) :
                    (\A S \in Range(sections) : i # Umbrella(S))
                        => heap'[row_data[i]] = heap[row_data[i]]]_vars

\* a call has gone through .flash2, which has no '[section .flash2]' row,
\* and then through .flash
C15_Witness ==
    /\ use_map_file_calls = 1
    /\ raised = ""
    /\ row_data # None
    /\ ~\E i \in 1..Len(Rows) : Rows[i].symbol_name = "[section .flash2]"
    /\ \E i, j \in 1..Len(Rows) :
           /\ i < j
           /\ Rows[i] = DataRow("eee", ".flash2", 2, "")
           /\ Rows[j] = DataRow("zzz", ".flash", 3, "")

\* C16: after use_map_file() returns, every row it appended has been
\* classified: its language is filled and its size is split into logic
\* and data, whether add_basic_info() was called before or not.
C16_AppendedRowsClassified ==
    [][\A map_file \in MapFiles, sections \in SectionLists :
          (use_map_file(map_file, sections) /\ row_data # None /\ raised' = "")
          => \A i \in (Len(row_data) + 1)..Len(row_data') :
                 /\ heap'[row_data'[i]].language # ""
                 /\ heap'[row_data'[i]].logic_size + heap'[row_data'[i]].data_size =
                        heap'[row_data'[i]].size]_vars

\* C18: when every loaded row and every map-file symbol has size >= 0,
\* every row of row_data has size >= 0 after any sequence of calls.
C18_SizesNonNegative == \A i \in 1..Len(Rows) : Rows[i].size >= 0

\* C17: resolution misses are never fatal: add_basic_info and
\* add_definitions return without raising for every list of symbols.
C17_ResolutionNeverRaises ==
    [][((add_basic_info \/ \E condition \in Conditions : add_definitions(condition))
           /\ row_data # None)
          => raised' = ""]_vars

\* C19: load_file with a path that does not exist raises FileNotFoundError
\* before the profiler is run and leaves the object with no data loaded:
\* the processing operations still fail with the no-data assertion and a
\* later load succeeds.
C19_MissingFileFailsFast ==
    /\ [][\A bin_file \in BinFiles \ DOMAIN Binaries :
             (load_file(bin_file) /\ row_data = None)
             => /\ raised' = "FileNotFoundError"
                /\ commands_run' = commands_run
                /\ row_data' = None
                /\ heap' = heap]_vars
    /\ [][(raised = "FileNotFoundError"
              /\ (aggregate \/ add_basic_info \/ AddDefinitions \/ Sort \/ Filter))
             => /\ raised' = "AssertionError: There are no data. Call load_xxx() first."
                /\ row_data' = None]_vars
    /\ [][\A bin_file \in DOMAIN Binaries :
             (raised = "FileNotFoundError" /\ load_file(bin_file))
             => /\ raised' = ""
                /\ row_data' # None
                /\ rows_of(heap', row_data') = Binaries[bin_file]
                /\ bloaty_cmd(bin_file) \in commands_run']_vars
    /\ [][\A rows \in PipelineRows :
             (raised = "FileNotFoundError" /\ load_data(rows))
             => /\ raised' = ""
                /\ rows_of(heap', row_data') = rows]_vars

\* a load of a file that does not exist has failed and no command was run
C19_Witness ==
    /\ raised = "FileNotFoundError"
    /\ row_data = None
    /\ commands_run = {}

\* C20: add_definitions(condition) leaves every row for which the condition
\* is False unchanged in all fields and keeps the number and the order of
\* the rows; when it returns every other row has been processed (a row
\* with no language has its func_name and its size split into logic and
\* data, a row with a language changes in its source_definition only), and
\* only rows the condition accepts can obtain a source_definition.
C20_ConditionFramesDefinitions ==
    [][LET unchanged(i) == heap'[row_data[i]] = heap[row_data[i]]
           processed(i) ==
               IF heap[row_data[i]].language = ""
               THEN /\ heap'[row_data[i]].func_name # ""
                    /\ heap'[row_data[i]].logic_size + heap'[row_data[i]].data_size
                       = heap'[row_data[i]].size
               ELSE heap'[row_data[i]] =
                        [heap[row_data[i]] EXCEPT !.source_definition =
                            heap'[row_data[i]].source_definition]
           accepts(condition, i) ==
               condition = "None" \/ call_condition(condition, heap[row_data[i]])
           framed(condition) ==
               /\ row_data' = row_data
               /\ \A i \in 1..Len(row_data) :
                      IF accepts(condition, i) THEN raised' = "" => processed(i)
                      ELSE unchanged(i)
               /\ \A i \in 1..Len(row_data) :
                      heap'[row_data[i]].source_definition # heap[row_data[i]].source_definition
                          => accepts(condition, i)
       \* in the contrapositive: a step on loaded data that is not framed by
       \* the condition is no step of add_definitions(condition)
       IN  \A condition \in Conditions :
                 (row_data # None /\ ~framed(condition)) => ~add_definitions(condition)]_vars

\* add_definitions with the condition 'protobuf' in symbol_name has given
\* its definition to the one row it accepts and has left a row of size 4
\* as it was loaded
C20_Witness ==
    /\ row_data # None
    /\ raised = ""
    /\ Len(Rows) = 4
    /\ \E i \in 1..Len(Rows) :
           /\ Contains(Rows[i].symbol_name, "protobuf")
           /\ Rows[i].source_definition # ""
    /\ \A i \in 1..Len(Rows) :
           ~Contains(Rows[i].symbol_name, "protobuf")
               => (Rows[i].source_definition = "" /\ Rows[i].language = "")
    /\ \E i \in 1..Len(Rows) : Rows[i].size = 4 /\ Rows[i].language = ""

\* whether the last call on the handler ran the locator on the row of the run
Located(calls) == <<"_get_definition", heap[1].symbol_name>> \in Range(calls)

\* the cache holds a location for the symbol
HasEntry(definitions, symbol) == symbol \in DOMAIN definitions.items

\* C21: _get_definition_cached runs the locator exactly when the cache has
\* no entry for row.symbol_name or is_invalidated(row.symbol_name) is true;
\* it then stores the result under row.symbol_name and returns it, so that
\* get(symbol_name) is the value returned and is_invalidated(symbol_name)
\* is false right after; otherwise it returns the cached location and
\* leaves the cache as it was.
C21_LocatorOnMissOrInvalidation ==
    [][call_get_definition_cached =>
          LET symbol == heap[1].symbol_name
              stale == /\ HasEntry(symbol_definitions, symbol)
                       /\ is_invalidated(symbol_definitions, files, symbol) = Returns(TRUE)
          IN  /\ Located(handler_calls') <=> (~HasEntry(symbol_definitions, symbol) \/ stale)
              /\ Located(handler_calls')
                     => /\ raised' = ""
                        /\ HasEntry(symbol_definitions', symbol)
                        /\ get(symbol_definitions', symbol) = Returns(returned')
                        /\ is_invalidated(symbol_definitions', files', symbol)
                               = Returns(FALSE)
                        /\ \A other \in DOMAIN symbol_definitions.items \ {symbol} :
                               symbol_definitions'.items[other]
                                   = symbol_definitions.items[other]
              /\ ~Located(handler_calls')
                     => /\ symbol_definitions' = symbol_definitions
                        /\ returned' = get(symbol_definitions, symbol).value]_vars

\* the location cached for foo was invalidated by an edit of its file and
\* the locator has run again: the cache holds the new location
C21_Witness ==
    /\ heap[1].symbol_name = "foo"
    /\ files["embed/a.c"] = CFileV2
    /\ handler_calls = <<<<"get", "foo">>, <<"is_invalidated", "foo">>,
                         <<"_get_definition", "foo">>, <<"add", "foo">>>>
    /\ returned = repr("embed/a.c:1")
    /\ symbol_definitions.items["foo"].definition = "embed/a.c:1"

\* C22: once the resolution of a symbol is cached with the empty location,
\* the entry stays as it is and every later resolution of the symbol
\* returns the empty location without running the locator, whatever edits
\* are made to the source files in between.
C22_NegativeResultsPermanent ==
    [][LET symbol == heap[1].symbol_name
       IN  (HasEntry(symbol_definitions, symbol)
               /\ symbol_definitions.items[symbol].definition = "")
           => /\ HasEntry(symbol_definitions', symbol)
              /\ symbol_definitions'.items[symbol] = symbol_definitions.items[symbol]
              /\ call_get_definition_cached
                     => (returned' = repr("") /\ ~Located(handler_calls'))
              /\ call_add_definition
                     => /\ ~Located(handler_calls')
                        /\ (heap[1].build_definition = ""
                               => heap'[1].source_definition = "")]_vars

\* bar was not found and cached with the empty location; embed/a.c now
\* defines bar, and the last resolution has returned the empty location
\* from the cache
C22_Witness ==
    /\ heap[1].symbol_name = "bar"
    /\ files["embed/a.c"] = CFileV3
    /\ symbol_definitions.items = Store(EmptyDict, "bar", SourceDefinition("", ""))
    /\ returned = repr("")
    /\ handler_calls = <<<<"get", "bar">>, <<"is_invalidated", "bar">>>>

\* add_definition returns such a row right after the basic info
Synthetic(row) ==
    \/ row.symbol_name = ""
    \/ \E prefix \in {"[", ".", "str1"} : StartsWith(row.symbol_name, prefix)

\* C23: for a row that is not synthetic and whose build_definition is
\* non-empty and does not contain 'build/firmware/frozen_mpy.c',
\* add_definition sets source_definition to build_definition without
\* running the locator and without a call on the cache; a synthetic row
\* gets no source_definition even when it has a build_definition.
C23_BuildDefinitionFastPath ==
    [][call_add_definition =>
          LET row == heap[1]
              only_basic_info ==
                  \A i \in 1..Len(handler_calls') : handler_calls'[i][1] = "add_basic_info"
          IN  /\ (/\ ~Synthetic(row)
                  /\ row.build_definition # ""
                  /\ Occurrences(row.build_definition, "build/firmware/frozen_mpy.c") = {})
                     => /\ heap'[1].source_definition = row.build_definition
                        /\ only_basic_info
                        /\ symbol_definitions' = symbol_definitions
              /\ Synthetic(row)
                     => /\ heap'[1].source_definition = row.source_definition
                        /\ only_basic_info
                        /\ symbol_definitions' = symbol_definitions]_vars

\* foo has taken its source_definition from its build_definition while
\* embed/a.c has foo on its first line, and the cache was never touched
C23_Witness ==
    /\ heap[1].symbol_name = "foo"
    /\ heap[1].build_definition = "embed/a.c:2"
    /\ heap[1].source_definition = "embed/a.c:2"
    /\ files["embed/a.c"] = CFileV2
    /\ handler_calls = <<>>
    /\ symbol_definitions = JsonDict(EmptyDict)

\* add_basic_info has filled the row
Classified(row) ==
    \/ row.language # ""
    \/ row.func_name # ""
    \/ row.module_name # ""
    \/ row.logic_size # 0
    \/ row.data_size # 0

\* C24: add_definition runs add_basic_info exactly when the row was not
\* classified before: a row classified by add_basic_info, section markers
\* included, is not classified again and keeps its language, module_name,
\* func_name, logic_size and data_size.
C24_ClassifiedOnce ==
    [][call_add_definition =>
          LET classifies ==
                  <<"add_basic_info", heap[1].symbol_name>> \in Range(handler_calls')
          IN  /\ classifies <=> ~Classified(heap[1])
              /\ Classified(heap[1])
                     => /\ heap'[1].language = heap[1].language
                        /\ heap'[1].module_name = heap[1].module_name
                        /\ heap'[1].func_name = heap[1].func_name
                        /\ heap'[1].logic_size = heap[1].logic_size
                        /\ heap'[1].data_size = heap[1].data_size]_vars

\* C25: resolve_module is complete for existing files: for every existing
\* file src/<p>.py, the name that flattens <p> resolves to that file and is
\* valid, also when a directory name is a "_"-prefix of the name of a sibling.
C25_ResolveModuleComplete ==
    \A path \in PythonFiles(files) :
        (heap[1].symbol_name = flattened(path) /\ StartsWith(returned, "("))
            => returned = repr_str_bool(<<path, TRUE>>)

\* the shallowest defining scope of a symbol in an index of definitions: the
\* longest "_"-separated prefix that names a class or a function of the level
RECURSIVE shallowest_scope(_, _)
shallowest_scope(obj, symbol_name) ==
    LET symbol_split == Split(symbol_name, "_")
        n            == Len(symbol_split)
        prefix(i)    == Join(SubSeq(symbol_split, 1, i), "_")
        rest(i)      == Join(SubSeq(symbol_split, i + 1, n), "_")
        hits         == {i \in 1..n : prefix(i) \in class_names(obj) \cup func_names(obj)}
        inside(cls, resolved) == IF resolved = "" THEN cls ELSE cls \o "." \o resolved
        scope(i)     == IF prefix(i) \in func_names(obj) THEN prefix(i) \o "()"
                        ELSE inside(prefix(i),
                                    shallowest_scope(get_class(obj, prefix(i)), rest(i)))
    IN  IF hits = {} THEN "" ELSE scope(MaxOf(hits))

\* C26: resolve_symbol returns the shallowest defining scope: at each level
\* the longest "_"-separated prefix that names a class or a function of the
\* level, a class followed by the resolution of the rest inside it, a
\* function ending the result with "()".
C26_ShallowestScope ==
    (heap[1].symbol_name \in ModuleSymbolNames /\ StartsWith(returned, "'"))
        => returned = repr(shallowest_scope(
                               get_module_object_definitions(files, MODULE_FILE).value,
                               heap[1].symbol_name))

\* the operations of BinarySize other than the loads
Operation ==
    \/ aggregate
    \/ add_basic_info
    \/ add_definitions("size > 2")
    \/ use_map_file(MapFileV1, <<".flash">>)
    \/ sort(TRUE)
    \/ filter("size > 2")
    \/ BinarySize_get
    \/ get_size
    \/ get_len
    \/ show

Names(row) == <<row.module_name, row.func_name>>

Identified(row) == Names(row) # <<"", "">>

\* C28: within one section id() distinguishes rows that are not alike: two
\* rows with different pairs of module_name and func_name, not both empty,
\* have different ids, and a row identified by its module or function never
\* has the id of a row identified only by its symbol_name; aggregate_rows
\* then keeps such rows apart.
C28_IdDistinguishes ==
    returned # ""
        => /\ (Identified(heap[1]) /\ Identified(heap[2]) /\ Names(heap[1]) # Names(heap[2]))
                  => /\ id(heap[1]) # id(heap[2])
                     /\ returned \in {repr_tuple(<<id(heap[1]), id(heap[2])>>), "2"}
           /\ (Identified(heap[1]) /\ ~Identified(heap[2]))
                  => /\ id(heap[1]) # id(heap[2])
                     /\ returned \in {repr_tuple(<<id(heap[1]), id(heap[2])>>), "2"}

\* the rows a call of use_map_file has appended to a list of n rows
AppendedRows(h, refs, n) ==
    {<<h[refs[i]].symbol_name, h[refs[i]].section, h[refs[i]].size>> :
        i \in (n + 1)..Len(refs)}

\* the size of the "[section S]" row of a list, 0 when there is none
SectionRowSize(h, refs, section) ==
    IF mysterious_section_row(rows_of(h, refs), section) = 0 THEN 0
    ELSE h[refs[mysterious_section_row(rows_of(h, refs), section)]].size

\* C29: use_map_file never appends a row for a map symbol whose size is
\* already counted in row_data, in whatever order the pipeline is run:
\* called after add_basic_info and aggregate it appends the same rows and
\* decreases the "[section S]" rows by the same amounts as called directly
\* on the rows as they were loaded.
C29_MapFileOrderIndependent ==
    [][\A map_file \in MapFiles, sections \in SectionLists :
          (/\ row_data # None
           /\ called_add_basic_info /\ called_aggregate
           /\ use_map_file_calls = 0
           /\ use_map_file(map_file, sections)
           /\ raised' = "")
          => \E direct \in add_info(heap, caller_rows, map_file, sections) :
                 /\ AppendedRows(heap', row_data', Len(row_data))
                    = AppendedRows(direct.heap, direct.rows, Len(caller_rows))
                 /\ \A section \in Range(sections) :
                        SectionRowSize(heap, row_data, section)
                            - SectionRowSize(heap', row_data', section)
                        = SectionRowSize(heap, caller_rows, section)
                            - SectionRowSize(direct.heap, direct.rows, section)]_vars

\* C30: the cached data/logic predicate of the C handler stays correct when
\* source files change: for every build_definition it has been asked about,
\* is_data_cached returns what the inspection of the current content of
\* the line returns.
C30_IsDataCacheFresh ==
    \A build_definition \in DOMAIN is_data_cache :
        is_data_cached(is_data_cache, files, build_definition).result
            = is_data_function(files, build_definition)

====
